---------------------------- MODULE Spec2Model ----------------------------
(***************************************************************************)
(* surge-ping: one Client (socket, reply map, receiver task), its clones,  *)
(* the pingers derived from it and the datagrams in flight.                *)
(*                                                                         *)
(* The reply map, the client's Drop and the receiver task are translated   *)
(* from src/src/client.rs.  The Pinger that works on the reply map is not  *)
(* among the sources (src/src/ping.rs is the older cache-based Pinger), so *)
(* its ping and Drop follow section 4.5 of the specification.              *)
(* The two earlier interfaces are modelled beside it, each from its own    *)
(* file: PingSocket with its per-address channels (src/src/pingsocket.rs)  *)
(* and the Pinger with a cache of send times (src/src/ping.rs).            *)
(*                                                                         *)
(* Atomic loads and stores are taken as sequentially consistent, and each  *)
(* locked map operation as one step.                                       *)
(***************************************************************************)
EXTENDS Naturals, FiniteSets, Sequences, TLC

\* ------------------------------------------------------------- bounds
MaxClones == 2      \* Client values (the original and its clones) that exist at a time
MaxNet == 2         \* echo replies in flight towards the socket
MaxCalls == 2       \* ping() calls made in one run, over all pingers
MaxAsks == 3        \* PingSocket::pinger() calls made in one run
MaxTime == 2        \* readings of the clock: Instant::now() is in 0..MaxTime
MaxNoise == 1       \* datagrams in flight that the network added: duplicates, others' traffic
MaxGarbage == 2     \* undecodable datagrams dropped while one ping() is in flight
MaxSetters == 2     \* setter calls chained on one ConfigBuilder
MaxPayload == 2     \* octets of payload in an echo request

\* The values the run draws from
Pingers == {1, 2}
Seqs == {0, 1}
Idents == {1, 2}
Hosts == {"h1"}

\* Option<T>: None, Some(x)
None == <<>>
Some(x) == <<x>>

VARIABLES
    sockType,   \* AsyncSocket.sock_type: the type of the socket that was opened
    linux,      \* cfg!(any(target_os = "linux", target_os = "android"))
    client,     \* the Client values: how many are live, how many are between Drop::drop
                \* and the release of their fields
    alive,      \* ReplyMap.alive
    inner,      \* ReplyMap.inner: ReplyToken -> oneshot::Sender
    recv,       \* the receiver task: "running" or "aborted"
    pinger,     \* pinger[p]: the Pinger's fields and the position of its ping() future
    net,        \* datagrams the kernel holds for recv_from
    calls,      \* ping() calls made so far
    now,        \* Instant::now(), the monotonic clock
    sendTime,   \* sendTime[p]: send_time of p's ping() in flight, once it is recorded
    arrival,    \* arrival[p]: Reply.timestamp of the Reply in p's slot
    duration,   \* duration[p]: the Duration p's last ping() returned with Ok
    dropped,    \* dropped[p]: the undecodable datagrams recv_task has dropped while p's
                \* ping() was in flight with its slot open
    builder,    \* a ConfigBuilder (b), the setter calls made on it, and whether
                \* build() has consumed it
    config,     \* the Config that build() returned
    newClient,  \* what Client::new(&config) did and returned
    wire,       \* a datagram as recv_from hands it over: family, peer address, bytes
    out,        \* what the decoder made of it
    lock,       \* the Mutex of ReplyMap.inner: who holds it, and for which operation
    pmap,       \* PingSocket.pmap: address -> the pinger() call whose Sender it holds
    recv_task,  \* PingSocket.recv_task: the JoinHandle of the receive task, if any
    run_task,   \* the receive task run_task spawned: where it is, what it holds
    asked,      \* asked[c]: the position of the c-th PingSocket::pinger() call, its
                \* address and whether the Receiver it returned is still open
    cache,      \* Cache.inner of the Pinger of ping.rs: the Tokens that have a send time
    send_task,  \* send_task[s]: the position of the task ping(s) spawned to send
    select,     \* the Pinger of ping.rs: its ident, its ping() call and the result
    socket      \* the datagrams its socket holds for recv

\* The timestamps, which only the timed specification follows
clock == <<now, sendTime, arrival, duration>>

\* The configuration and the construction of a client from it
setup == <<builder, config, newClient>>

\* One datagram and its decoding
codec == <<wire, out>>

\* What only the specifications of the locks and of the earlier interfaces follow
pingsocket == <<pmap, recv_task, run_task, asked>>
ownsocket == <<cache, send_task, select, socket>>
apart == <<lock, pingsocket, ownsocket>>

\* What the specification of the client's life cycle leaves aside
aside == <<clock, dropped, setup, codec, apart>>

vars == <<sockType, linux, client, alive, inner, recv, pinger, net, calls, aside>>

\* The client, its pingers and the network
core == <<sockType, linux, client, alive, inner, recv, pinger, net, calls>>

\* ------------------------------------------------------- client.rs helpers

\* is_linux_icmp_socket!(sock_type)
IsLinuxIcmpSocket(st) ==
    IF (st = "DGRAM" /\ ~linux) \/ st = "RAW" THEN FALSE ELSE TRUE

\* struct ReplyToken(IpAddr, Option<PingIdentifier>, PingSequence)
ReplyToken(host, ident, seq) == <<host, ident, seq>>

\* HashMap::insert: the value under k is replaced when k is present
MapInsert(m, k, v) == [x \in (DOMAIN m) \cup {k} |-> IF x = k THEN v ELSE m[x]]

\* HashMap::remove
MapRemove(m, k) == [x \in (DOMAIN m) \ {k} |-> m[x]]

\* A oneshot::Sender held by the map.  owner: the pinger whose new_waiter made
\* the channel; kind: what became of the channel's Receiver,
\*   "live"      held by the owner's ping() future, which is in flight
\*   "rejected"  dropped when new_waiter returned IdenticalRequests
\*   "cancelled" dropped with the ping() future, before it completed
\*   "returned"  dropped when ping() returned
Sender(p, kind) == [owner |-> p, kind |-> kind]

\* new_waiter that takes every token for a free one
NewWaiterResultNoPresenceTest(isAlive, m, tok) ==
    IF ~isAlive THEN "ClientDestroyed" ELSE "Ok"

\* ReplyMap::new_waiter, its result ...
NewWaiterResult(isAlive, m, tok) ==
    IF ~isAlive THEN "ClientDestroyed"
    ELSE IF tok \in DOMAIN m THEN "IdenticalRequests"
    ELSE "Ok"

\* new_waiter that does not look at the alive flag
NewWaiterMapNoAliveTest(isAlive, m, tok, p) ==
    MapInsert(m, tok, Sender(p, IF tok \in DOMAIN m THEN "rejected" ELSE "live"))

\* ... and the map it leaves: the sender is inserted before the presence test,
\* whose Err drops the Receiver
NewWaiterMap(isAlive, m, tok, p) ==
    IF ~isAlive THEN m
    ELSE MapInsert(m, tok, Sender(p, IF NewWaiterResult(isAlive, m, tok) = "Ok"
                                     THEN "live" ELSE "rejected"))

\* remove that leaves the entry in the map
RemoveMapKeeps(m, tok) == m

\* ReplyMap::remove: the map it leaves
RemoveMap(m, tok) == MapRemove(m, tok)

\* Arc::strong_count(&self.recv): the Client values that still hold the handle
StrongCount == client.live + client.dropping

\* The pingers whose Receiver loses its Sender when the map goes from m to m2
\* without the sender being handed out
Closed(m, m2) ==
    {m[t].owner : t \in {t \in DOMAIN m : m[t].kind = "live" /\ (t \notin DOMAIN m2 \/ m2[t] # m[t])}}

\* ------------------------------------------------------------------ Init

\* socket2::Type, as far as Config::sock_type_hint goes
SockTypes == {"DGRAM", "RAW"}

\* Config::default(): sock_type_hint
DefaultHint == "DGRAM"

\* The socket types the kernel lets this process open; Client::new fails when
\* it lets it open neither
Openable == (SUBSET SockTypes) \ {{}}

\* create_socket: new_type, the type of the second attempt
OtherType(hint) == IF hint = "DGRAM" THEN "RAW" ELSE "DGRAM"

\* create_socket that reports the hint whichever socket it opened
CreateSocketReportsHint(hint, opens) == hint

\* create_socket: the hinted type when it opens, the other type when it does not
CreateSocket(hint, opens) ==
    IF hint \in opens THEN hint
    ELSE OtherType(hint)

\* ConfigBuilder::default(), and Config::default() alike
ConfigBuilderDefault ==
    [sock_type_hint |-> DefaultHint, kind |-> "V4", bind |-> None, interface |-> None,
     interface_index |-> None, ttl |-> None, fib |-> None]

\* Pinger::new: the identifier the pinger registers under, for the socket type
\* st of the client's socket
PingerIdent(st, hint) == IF IsLinuxIcmpSocket(st) THEN None ELSE Some(hint)

\* Client::pinger(host, ident) -> Pinger::new(host, ident, socket, reply_map).
\* hint keeps the identifier the caller passed, which the pinger itself forgets
\* when it registers under None
NewPinger(st, h, hint) ==
    [st |-> "idle", host |-> h, ident |-> PingerIdent(st, hint), hint |-> hint, seq |-> 0,
     last |-> None, rx |-> "none", res |-> "none"]

\* Client::new, and then one Client::pinger per pinger: creating a pinger only
\* copies the socket and the map handle, so it commutes with every other step
\* and is done here.  Hosts and identifiers are interchangeable values: the
\* first pinger takes the first of each.
Init ==
    /\ \E hint \in SockTypes, opens \in Openable : sockType = CreateSocket(hint, opens)
    /\ linux \in BOOLEAN
    /\ client = [live |-> 1, dropping |-> 0]
    /\ alive = TRUE
    /\ inner = << >>
    /\ recv = "running"
    /\ \E hs \in [Pingers -> Hosts], is \in [Pingers -> Idents] :
          /\ hs[1] = "h1"
          /\ is[1] = 1
          /\ pinger = [p \in Pingers |-> NewPinger(sockType, hs[p], is[p])]
    /\ net = {}
    /\ calls = 0
    /\ now = 0
    /\ sendTime = [p \in Pingers |-> None]
    /\ arrival = [p \in Pingers |-> None]
    /\ duration = [p \in Pingers |-> None]
    /\ dropped = [p \in Pingers |-> 0]
    /\ builder = [b |-> ConfigBuilderDefault, calls |-> << >>, moved |-> FALSE]
    /\ config = None
    /\ newClient = None
    /\ wire = None
    /\ out = None
    /\ lock = None
    /\ pmap = << >>
    /\ recv_task = None
    /\ run_task = [pc |-> "none", from |-> None, failed |-> FALSE, n |-> 0]
    /\ asked = [c \in 1..MaxAsks |-> [pc |-> "idle", addr |-> None, rx |-> FALSE]]
    /\ cache = {}
    /\ send_task = [s \in Seqs |-> "none"]
    /\ select = [st |-> "idle", ident |-> 1, seq |-> 0, res |-> "none"]
    /\ socket = {}

\* ---------------------------------------------------------------- Client

\* #[derive(Clone)] for Client: socket, reply_map and recv are each cloned, which
\* adds one strong reference to the receiver handle
ClientClone ==
    /\ client.live >= 1
    /\ StrongCount < MaxClones
    /\ client' = [client EXCEPT !.live = @ + 1]
    /\ UNCHANGED <<sockType, linux, alive, inner, recv, pinger, net, calls>>

\* ReplyMap::mark_destroyed: the value stored into alive
MarkDestroyed == FALSE

\* The test with the bound off by one
IsLastOwnerOffByOne(count) == count <= 2

\* Drop for Client: the test that decides whether the receiver is aborted
IsLastOwner(count) == count <= 1

\* Drop::drop for Client: mark_destroyed(), then the receiver is aborted if
\* Arc::strong_count(&self.recv) <= 1 (self still holds its reference)
DropClient ==
    /\ client.live >= 1
    /\ client' = [live |-> client.live - 1, dropping |-> client.dropping + 1]
    /\ alive' = MarkDestroyed
    /\ recv' = IF IsLastOwner(StrongCount) THEN "aborted" ELSE recv
    /\ UNCHANGED <<sockType, linux, inner, pinger, net, calls>>

\* Drop for Client, the drop glue: the fields are released, the strong count of
\* the handle goes down by one
DropRelease ==
    /\ client.dropping >= 1
    /\ client' = [client EXCEPT !.dropping = @ - 1]
    /\ UNCHANGED <<sockType, linux, alive, inner, recv, pinger, net, calls>>

\* ---------------------------------------------------------------- Pinger

\* The token of pinger p's ping with sequence s
TokenOf(p, s) == ReplyToken(pinger[p].host, pinger[p].ident, s)

\* p's ping() is in flight and its slot is neither filled nor closed
Active(p) == pinger[p].st \in {"sending", "awaiting"} /\ pinger[p].rx = "empty"

\* The Receiver of each sender of p that is still "live" is dropped: the sender
\* stays where it is, its kind says how the Receiver went
DropReceiver(m, p, kind) ==
    [t \in DOMAIN m |-> IF m[t].owner = p /\ m[t].kind = "live" THEN Sender(p, kind) ELSE m[t]]

\* The datagrams that answer a call of p which is over are late from now on
MarkLate(n, p) ==
    {IF "from" \in DOMAIN d /\ d.from = p THEN [d EXCEPT !.late = TRUE] ELSE d : d \in n}

\* The other pingers' Receivers that see their Sender dropped
CloseOthers(pg, m, m2, p) ==
    [q \in Pingers |-> IF q # p /\ q \in Closed(m, m2)
                       THEN [pg[q] EXCEPT !.rx = "closed"] ELSE pg[q]]

\* Pinger::ping, step 1: register the waiter; on failure return the error
PingRegister(p, s) ==
    LET tok == TokenOf(p, s)
        r == NewWaiterResult(alive, inner, tok)
        m2 == NewWaiterMap(alive, inner, tok, p)
        me == IF r = "Ok"
              THEN [pinger[p] EXCEPT !.st = "sending", !.seq = s, !.rx = "empty", !.res = "none"]
              ELSE [pinger[p] EXCEPT !.seq = s, !.res = r]
    IN /\ pinger[p].st = "idle"
       /\ calls < MaxCalls
       /\ calls' = calls + 1
       /\ inner' = m2
       /\ pinger' = CloseOthers([pinger EXCEPT ![p] = me], inner, m2, p)
       /\ UNCHANGED <<sockType, linux, client, alive, recv, net>>

\* The identifier the kernel of an unprivileged datagram socket writes into the
\* requests it transmits: one value per socket, whichever
KernelIdent == CHOOSE i \in Idents : TRUE

\* The identifier on the wire of the reply to p's request: the pinger's own, or
\* the one the kernel wrote over it
WireIdent(p) == IF pinger[p].ident = None THEN KernelIdent ELSE pinger[p].ident[1]

\* The echo reply to p's request, as recv_from hands it over
EchoReply(p) ==
    [src |-> pinger[p].host, id |-> WireIdent(p), seq |-> pinger[p].seq,
     from |-> p, late |-> FALSE, copy |-> 1]

\* Pinger::ping, steps 3, 5, 6: send_to succeeded, last_sequence is set; the
\* host answers (replied) or the request or its reply is lost
PingSendOk(p, replied) ==
    /\ pinger[p].st = "sending"
    /\ pinger' = [pinger EXCEPT ![p].st = "awaiting", ![p].last = Some(pinger[p].seq)]
    /\ net' = IF replied /\ Cardinality(net) < MaxNet THEN net \cup {EchoReply(p)} ELSE net
    /\ UNCHANGED <<sockType, linux, client, alive, inner, recv, calls>>

\* The map after the failed send of Pinger::ping, step 4: the waiter is removed
SendFailMap(m, tok) == RemoveMap(m, tok)

\* Pinger::ping, step 4: send_to failed
PingSendFail(p) ==
    LET tok == TokenOf(p, pinger[p].seq)
        m2 == DropReceiver(SendFailMap(inner, tok), p, "returned")
    IN /\ pinger[p].st = "sending"
       /\ inner' = m2
       /\ pinger' = CloseOthers([pinger EXCEPT ![p].st = "idle", ![p].rx = "none",
                                                ![p].res = "IOError"], inner, m2, p)
       /\ net' = MarkLate(net, p)
       /\ UNCHANGED <<sockType, linux, client, alive, recv, calls>>

\* Pinger::ping, step 7: the slot holds a Reply
PingReply(p) ==
    /\ pinger[p].st = "awaiting"
    /\ pinger[p].rx = "value"
    /\ pinger' = [pinger EXCEPT ![p].st = "idle", ![p].rx = "none", ![p].res = "Ok"]
    /\ inner' = DropReceiver(inner, p, "returned")
    /\ net' = MarkLate(net, p)
    /\ UNCHANGED <<sockType, linux, client, alive, recv, calls>>

\* Pinger::ping, step 7: the sender was dropped without a Reply
PingClosed(p) ==
    /\ pinger[p].st = "awaiting"
    /\ pinger[p].rx = "closed"
    /\ pinger' = [pinger EXCEPT ![p].st = "idle", ![p].rx = "none", ![p].res = "NetworkError"]
    /\ inner' = DropReceiver(inner, p, "returned")
    /\ net' = MarkLate(net, p)
    /\ UNCHANGED <<sockType, linux, client, alive, recv, calls>>

\* The map after the timeout of Pinger::ping, step 7: the waiter is removed
TimeoutMap(m, tok) == RemoveMap(m, tok)

\* A timer that only runs while the client is alive
PingTimeoutWhileAlive(p) ==
    LET tok == TokenOf(p, pinger[p].seq)
        m2 == DropReceiver(TimeoutMap(inner, tok), p, "returned")
    IN /\ alive
       /\ pinger[p].st = "awaiting"
       /\ pinger[p].rx = "empty"
       /\ inner' = m2
       /\ pinger' = CloseOthers([pinger EXCEPT ![p].st = "idle", ![p].rx = "none",
                                                ![p].res = "Timeout"], inner, m2, p)
       /\ net' = MarkLate(net, p)
       /\ UNCHANGED <<sockType, linux, client, alive, recv, calls>>

\* Pinger::ping, step 7: the timer elapsed with the slot still empty
PingTimeout(p) ==
    LET tok == TokenOf(p, pinger[p].seq)
        m2 == DropReceiver(TimeoutMap(inner, tok), p, "returned")
    IN /\ pinger[p].st = "awaiting"
       /\ pinger[p].rx = "empty"
       /\ inner' = m2
       /\ pinger' = CloseOthers([pinger EXCEPT ![p].st = "idle", ![p].rx = "none",
                                                ![p].res = "Timeout"], inner, m2, p)
       /\ net' = MarkLate(net, p)
       /\ UNCHANGED <<sockType, linux, client, alive, recv, calls>>

\* The future of ping() is dropped at one of its suspension points (send_to, the
\* slot): its Receiver goes with it, nothing else runs
PingCancel(p) ==
    /\ pinger[p].st \in {"sending", "awaiting"}
    /\ pinger' = [pinger EXCEPT ![p].st = "idle", ![p].rx = "none", ![p].res = "Cancelled"]
    /\ inner' = DropReceiver(inner, p, "cancelled")
    /\ net' = MarkLate(net, p)
    /\ UNCHANGED <<sockType, linux, client, alive, recv, calls>>

\* The map after Drop for Pinger: remove under last_sequence, if it is set
PingerDropMap(m, p) ==
    IF pinger[p].last = None THEN m ELSE RemoveMap(m, TokenOf(p, pinger[p].last[1]))

\* Drop for Pinger (ping borrows the pinger mutably: no ping() future is alive)
PingerDrop(p) ==
    LET m2 == PingerDropMap(inner, p)
    IN /\ pinger[p].st = "idle"
       /\ inner' = m2
       /\ pinger' = CloseOthers([pinger EXCEPT ![p].st = "dropped", ![p].last = None],
                                inner, m2, p)
       /\ UNCHANGED <<sockType, linux, client, alive, recv, net, calls>>

\* ------------------------------------------------------------- the codec

\* usize::saturating_sub, Instant::saturating_duration_since
SaturatingSub(a, s) == IF a >= s THEN a - s ELSE 0

\* Octets are 0..255, a buffer is a sequence of octets; the code counts from 0.
\* u16::to_be_bytes
Be16(x) == <<x \div 256, x % 256>>

\* The two octets read least significant first
U16AtLittleEndian(b, i) == b[i + 2] * 256 + b[i + 1]

\* u16::from_be_bytes(b[i..i+2])
U16At(b, i) == b[i + 1] * 256 + b[i + 2]

\* &b[i..]
From(b, i) == SubSeq(b, i + 1, Len(b))

\* vec![0; n]
Zeros(n) == [i \in 1..n |-> 0]

\* Ipv4Addr and Ipv6Addr as their octets
Addr(fam, n) == IF fam = "V4" THEN <<10, 0, 0, n>> ELSE Zeros(15) \o <<n>>

\* Ipv4Addr::new(127, 0, 0, 1) and Ipv6Addr::LOCALHOST, the defaults of the
\* decoded packets
Localhost == [V4 |-> <<127, 0, 0, 1>>, V6 |-> Zeros(15) \o <<1>>]

\* The sum of the 16-bit words of b from word w on, the checksum word left out
\* and an odd last octet padded with zero
RECURSIVE SumWords(_, _)
SumWords(b, w) ==
    IF 2 * w >= Len(b) THEN 0
    ELSE (IF w = 1 THEN 0
          ELSE b[2 * w + 1] * 256 + (IF 2 * w + 2 <= Len(b) THEN b[2 * w + 2] ELSE 0))
         + SumWords(b, w + 1)

\* A sum whose carries are lost
FoldDropsCarry(x) == x % 65536

\* The carries are added back in
RECURSIVE Fold(_)
Fold(x) == IF x >= 65536 THEN Fold((x % 65536) + (x \div 65536)) ELSE x

\* icmp::checksum
Checksum(b) == 65535 - Fold(SumWords(b, 0))

\* An encoder that leaves the identifier to the kernel on every socket
MakeIcmpv4EchoPacketNoIdent(ident_hint, seq_cnt, st, payload) ==
    <<8, 0, 0, 0, 0, 0>> \o Be16(seq_cnt) \o payload

\* make_icmpv4_echo_packet: type, payload, sequence; identifier and checksum
\* unless the kernel is going to write them
MakeIcmpv4EchoPacket(ident_hint, seq_cnt, st, payload) ==
    LET blank == <<8, 0, 0, 0, 0, 0>> \o Be16(seq_cnt) \o payload
        named == <<8, 0, 0, 0>> \o Be16(ident_hint) \o Be16(seq_cnt) \o payload
    IN IF ~IsLinuxIcmpSocket(st)
       THEN <<8, 0>> \o Be16(Checksum(named)) \o From(named, 4)
       ELSE blank

\* make_icmpv6_echo_packet: the checksum is left to the kernel
MakeIcmpv6EchoPacket(ident, seq_cnt, payload) ==
    <<128, 0, 0, 0>> \o Be16(ident) \o Be16(seq_cnt) \o payload

\* ipv4::Ipv4Packet::payload: from the end of the header and its options, as
\* far as the total length says and the buffer goes
Ipv4Payload(b) ==
    LET ihl == b[1] % 16
        start == 20 + SaturatingSub(ihl * 4, 20)
        stop == start + SaturatingSub(U16At(b, 2), ihl * 4)
    IN IF Len(b) <= start THEN << >>
       ELSE SubSeq(b, start + 1, IF stop < Len(b) THEN stop ELSE Len(b))

\* Ipv4Packet::get_source, get_destination
Ipv4Source(b) == SubSeq(b, 13, 16)

\* A header view that hands out the source for the destination
Ipv4DestinationIsSource(b) == SubSeq(b, 13, 16)
Ipv4Destination(b) == SubSeq(b, 17, 20)

\* Err(SurgeError) of the decoders
DecodeErr(e) == [res |-> e]

\* MalformedPacketError::PayloadTooShort { got, want }
PayloadTooShort(got, want) == [res |-> "PayloadTooShort", got |-> got, want |-> want]

\* The match on the ICMP type that decode_from_ipv4 and decode_from_icmp both
\* make, on the ICMP message icmp, with the addresses and the ttl each of them
\* fills in
Icmpv4Message(icmp, src, dst, ttl) ==
    IF icmp[1] = 0
    THEN IF Len(icmp) < 8 THEN DecodeErr("NotIcmpv4Packet")
         ELSE [res |-> "Ok", source |-> src, destination |-> dst, ttl |-> ttl,
               icmp_type |-> icmp[1], icmp_code |-> icmp[2], size |-> Len(icmp),
               real_dest |-> src,
               identifier |-> U16At(icmp, 4), sequence |-> U16At(icmp, 6)]
    ELSE IF icmp[1] = 8 THEN DecodeErr("EchoRequestPacket")
    ELSE LET icmp_payload == From(icmp, 4)
         IN IF Len(icmp_payload) < 32 THEN PayloadTooShort(Len(icmp_payload), 32)
            ELSE [res |-> "Ok", source |-> src, destination |-> dst, ttl |-> ttl,
                  icmp_type |-> icmp[1], icmp_code |-> icmp[2], size |-> Len(icmp),
                  real_dest |-> Ipv4Destination(From(icmp_payload, 4)),
                  identifier |-> U16At(icmp_payload, 28),
                  sequence |-> U16At(icmp_payload, 30)]

\* Icmpv4Packet::decode_from_ipv4: the buffer starts with the IPv4 header
DecodeFromIpv4(buf) ==
    IF Len(buf) < 20 THEN DecodeErr("NotIpv4Packet")
    ELSE IF Len(Ipv4Payload(buf)) < 4 THEN DecodeErr("NotIcmpv4Packet")
    ELSE Icmpv4Message(Ipv4Payload(buf), Ipv4Source(buf), Ipv4Destination(buf), Some(buf[9]))

\* A decoder that takes a message of the header alone for a broken one
DecodeFromIcmpWantsPayload(buf, src_addr, dst_addr) ==
    IF Len(buf) < 9 THEN DecodeErr("NotIcmpv4Packet")
    ELSE Icmpv4Message(buf, src_addr, dst_addr, None)

\* Icmpv4Packet::decode_from_icmp: the kernel has taken the IPv4 header off
DecodeFromIcmp(buf, src_addr, dst_addr) ==
    IF Len(buf) < 4 THEN DecodeErr("NotIcmpv4Packet")
    ELSE Icmpv4Message(buf, src_addr, dst_addr, None)

\* A decoder that expects the IPv4 header on every socket
Icmpv4DecodeAlwaysIpv4(buf, st, src_addr, dst_addr) == DecodeFromIpv4(buf)

\* Icmpv4Packet::decode
Icmpv4Decode(buf, st, src_addr, dst_addr) ==
    IF IsLinuxIcmpSocket(st) THEN DecodeFromIcmp(buf, src_addr, dst_addr)
    ELSE DecodeFromIpv4(buf)

\* A decoder that takes an echo request for the reply to it
Icmpv6DecodeTakesRequests(buf, destination) ==
    IF Len(buf) < 4 THEN DecodeErr("NotIcmpv6Packet")
    ELSE LET icmpv6_payload == From(buf, 4)
         IN IF Len(icmpv6_payload) < 4 THEN PayloadTooShort(Len(icmpv6_payload), 4)
            ELSE [res |-> "Ok", source |-> destination, destination |-> Localhost.V6,
                  max_hop_limit |-> 0, icmpv6_type |-> buf[1], icmpv6_code |-> buf[2],
                  size |-> Len(buf), real_dest |-> destination,
                  identifier |-> U16At(icmpv6_payload, 0),
                  sequence |-> U16At(icmpv6_payload, 2)]

\* Icmpv6Packet::decode; in the last branch real_dest keeps the value that
\* Icmpv6Packet::default() gave it
Icmpv6Decode(buf, destination) ==
    IF Len(buf) < 4 THEN DecodeErr("NotIcmpv6Packet")
    ELSE LET icmpv6_payload == From(buf, 4)
         IN IF buf[1] = 128 THEN DecodeErr("EchoRequestPacket")
            ELSE IF buf[1] = 129
            THEN IF Len(icmpv6_payload) < 4 THEN PayloadTooShort(Len(icmpv6_payload), 4)
                 ELSE [res |-> "Ok", source |-> destination, destination |-> Localhost.V6,
                       max_hop_limit |-> 0, icmpv6_type |-> buf[1], icmpv6_code |-> buf[2],
                       size |-> Len(buf), real_dest |-> destination,
                       identifier |-> U16At(icmpv6_payload, 0),
                       sequence |-> U16At(icmpv6_payload, 2)]
            ELSE IF Len(icmpv6_payload) < 48 THEN PayloadTooShort(Len(icmpv6_payload), 48)
                 ELSE [res |-> "Ok", source |-> destination, destination |-> destination,
                       max_hop_limit |-> 0, icmpv6_type |-> buf[1], icmpv6_code |-> buf[2],
                       size |-> Len(buf), real_dest |-> Localhost.V6,
                       identifier |-> U16At(icmpv6_payload, 44),
                       sequence |-> U16At(icmpv6_payload, 46)]

\* socket.local_addr(), and the address of the host that is pinged
LocalAddr(fam) == Addr(fam, 2)
HostAddr(fam) == Addr(fam, 3)

\* recv_task: the decoder for the family of the peer address
DecodeBuf(fam, buf, st, src_addr) ==
    IF fam = "V4" THEN Icmpv4Decode(buf, st, src_addr, LocalAddr(fam))
    ELSE Icmpv6Decode(buf, src_addr)

\* The header the IP layer puts before an ICMP message of n octets
Ipv4Header(src, dst, n) ==
    <<69, 0>> \o Be16(20 + n) \o <<0, 0, 0, 0, 64, 1, 0, 0>> \o src \o dst
Ipv6Header(src, dst, n) ==
    <<96, 0, 0, 0>> \o Be16(n) \o <<58, 64>> \o src \o dst

\* What recv_from on a socket of type st yields for the ICMP message icmp sent
\* from src: with the IPv4 header, unless the socket is one that strips it; the
\* IPv6 header is never there
AsReceived(fam, icmp, st, src) ==
    IF fam = "V4" /\ ~IsLinuxIcmpSocket(st)
    THEN Ipv4Header(src, LocalAddr(fam), Len(icmp)) \o icmp
    ELSE icmp

\* Where the ICMP message starts in what recv_from yields
IcmpOffset(fam, st) == IF fam = "V4" /\ ~IsLinuxIcmpSocket(st) THEN 20 ELSE 0

\* IcmpTypes::EchoRequest, EchoReply and Icmpv6Types::EchoRequest, EchoReply
EchoRequestType == [V4 |-> 8, V6 |-> 128]
EchoReplyType == [V4 |-> 0, V6 |-> 129]

\* The echo request of the given family as the encoder makes it
EchoRequestBytes(fam, id, seq, payload, st) ==
    IF fam = "V4" THEN MakeIcmpv4EchoPacket(id, seq, st, payload)
    ELSE MakeIcmpv6EchoPacket(id, seq, payload)

\* -------------------------------------------------------------- recv_task

\* The errors Icmpv4Packet::decode and Icmpv6Packet::decode return
DecodeErrors == {"NotIpv4Packet", "NotIcmpv4Packet", "NotIcmpv6Packet", "PayloadTooShort",
                 "EchoRequestPacket"}

\* A datagram that does not decode: all that matters of it is the error
Undecodable(e) == [err |-> e]

\* Icmpv4Packet::decode / Icmpv6Packet::decode of a datagram: "Ok", or the error.
\* A datagram that carries its octets (buf) is decoded from them; the echo
\* replies to the pingers' requests decode, the others carry their error
Decode(d) ==
    IF "err" \in DOMAIN d THEN d.err
    ELSE IF "buf" \in DOMAIN d
    THEN DecodeBuf(d.fam, d.buf, sockType, HostAddr(d.fam)).res
    ELSE "Ok"

\* A lookup that always keys by the identifier on the wire
RecvIdentAlwaysSome(d) == Some(d.id)

\* A lookup that never keys by the identifier
RecvIdentAlwaysNone(d) == None

\* recv_task: the identifier the lookup is keyed by
RecvIdent(d) == IF IsLinuxIcmpSocket(sockType) THEN None ELSE Some(d.id)

\* A lookup that takes every reply for one of sequence 0
RecvTokenAnySeq(d) == ReplyToken(d.src, RecvIdent(d), 0)

\* A receiver that looks the waiter up by the destination of the request the
\* packet is about (real_dest) where the packet has one
RecvTokenByRealDest(d) ==
    IF "buf" \in DOMAIN d
    THEN ReplyToken(IF DecodeBuf(d.fam, d.buf, sockType, HostAddr(d.fam)).real_dest
                          = HostAddr(d.fam)
                    THEN "h1" ELSE d.src,
                    RecvIdent(d), d.seq)
    ELSE ReplyToken(d.src, RecvIdent(d), d.seq)

\* recv_task: the token of a decoded datagram
RecvToken(d) == ReplyToken(d.src, RecvIdent(d), d.seq)

\* A receiver whose loop ends at the first datagram that does not decode
RecvTaskStopsOnError(d) ==
    LET tok == RecvToken(d)
    IN /\ recv = "running"
       /\ d \in net
       /\ net' = net \ {d}
       /\ IF Decode(d) # "Ok"
          THEN recv' = "aborted" /\ UNCHANGED <<inner, pinger>>
          ELSE IF tok \in DOMAIN inner
          THEN /\ inner' = RemoveMap(inner, tok)
               /\ pinger' = IF inner[tok].kind = "live"
                            THEN [pinger EXCEPT ![inner[tok].owner].rx = "value"]
                            ELSE pinger
               /\ recv' = recv
          ELSE UNCHANGED <<inner, pinger, recv>>
       /\ UNCHANGED <<sockType, linux, client, alive, calls>>

\* recv_task, one turn of the loop: recv_from, decode (on Err: debug!, continue),
\* remove the waiter and send it the Reply (a send to a dropped Receiver fails and
\* is ignored); then the loop goes on
RecvTask(d) ==
    LET tok == RecvToken(d)
    IN /\ recv = "running"
       /\ d \in net
       /\ net' = net \ {d}
       /\ IF Decode(d) # "Ok"
          THEN UNCHANGED <<inner, pinger>>
          ELSE IF tok \in DOMAIN inner
          THEN /\ inner' = RemoveMap(inner, tok)
               /\ pinger' = IF inner[tok].kind = "live"
                            THEN [pinger EXCEPT ![inner[tok].owner].rx = "value"]
                            ELSE pinger
          ELSE UNCHANGED <<inner, pinger>>
       /\ UNCHANGED <<sockType, linux, client, alive, recv, calls>>

\* ------------------------------------------------------------------ Next

\* The steps of the client, its pingers and the receiver, the clock left aside
Next ==
    \/ ClientClone /\ UNCHANGED aside
    \/ DropClient /\ UNCHANGED aside
    \/ DropRelease /\ UNCHANGED aside
    \/ \E p \in Pingers, s \in Seqs : PingRegister(p, s) /\ UNCHANGED aside
    \/ \E p \in Pingers, replied \in BOOLEAN : PingSendOk(p, replied) /\ UNCHANGED aside
    \/ \E p \in Pingers : PingSendFail(p) /\ UNCHANGED aside
    \/ \E p \in Pingers : PingReply(p) /\ UNCHANGED aside
    \/ \E p \in Pingers : PingClosed(p) /\ UNCHANGED aside
    \/ \E p \in Pingers : PingTimeout(p) /\ UNCHANGED aside
    \/ \E p \in Pingers : PingCancel(p) /\ UNCHANGED aside
    \/ \E p \in Pingers : PingerDrop(p) /\ UNCHANGED aside
    \/ \E d \in net : RecvTask(d) /\ UNCHANGED aside

Spec == Init /\ [][Next]_vars

\* send_to completes, one way or the other
SendCompletes(p) ==
    /\ PingSendOk(p, TRUE) \/ PingSendOk(p, FALSE) \/ PingSendFail(p)
    /\ UNCHANGED aside

\* The future that awaits the slot under the timeout is polled and completes:
\* with the Reply, with the closed channel, or when the timer fires
AwaitCompletes(p) ==
    /\ PingReply(p) \/ PingClosed(p) \/ PingTimeout(p)
    /\ UNCHANGED aside

\* The executor runs every ping() future that can make progress; the socket
\* completes every send and the timer fires
FairSpec ==
    /\ Spec
    /\ \A p \in Pingers : WF_vars(SendCompletes(p)) /\ WF_vars(AwaitCompletes(p))

\* ------------------------------------------------------------ timestamps

\* Time passes
Tick ==
    /\ now < MaxTime
    /\ now' = now + 1
    /\ UNCHANGED <<sockType, linux, client, alive, inner, recv, pinger, net, calls,
                   sendTime, arrival, duration, dropped, setup, codec, apart>>

\* Pinger::ping, step 1, of a call that has no timestamp yet
TimedRegister(p, s) ==
    /\ PingRegister(p, s)
    /\ sendTime' = [sendTime EXCEPT ![p] = None]
    /\ arrival' = [arrival EXCEPT ![p] = None]
    /\ UNCHANGED <<now, duration, dropped, setup, codec, apart>>

\* Pinger::ping, step 3: send_to has returned, the request is out (and may be
\* answered); send_time is not yet taken
TimedSendOk(p, replied) ==
    /\ PingSendOk(p, replied)
    /\ UNCHANGED aside

\* Pinger::ping, step 5: send_time = Instant::now()
RecordSendTime(p) ==
    /\ pinger[p].st = "awaiting"
    /\ sendTime[p] = None
    /\ sendTime' = [sendTime EXCEPT ![p] = Some(now)]
    /\ UNCHANGED <<sockType, linux, client, alive, inner, recv, pinger, net, calls,
                   now, arrival, duration, dropped, setup, codec, apart>>

\* recv_task: timestamp = Instant::now() right after recv_from; it goes into the
\* waiter's slot with the Reply
TimedRecv(d) ==
    LET tok == RecvToken(d)
    IN /\ RecvTask(d)
       /\ arrival' = IF tok \in DOMAIN inner /\ inner[tok].kind = "live"
                     THEN [arrival EXCEPT ![inner[tok].owner] = Some(now)]
                     ELSE arrival
       /\ UNCHANGED <<now, sendTime, duration, dropped, setup, codec, apart>>

\* Pinger::ping, step 7, reached after step 5: Ok((packet, arrival - send_time))
TimedReply(p) ==
    /\ sendTime[p] # None
    /\ PingReply(p)
    /\ duration' = [duration EXCEPT ![p] = Some(SaturatingSub(arrival[p][1], sendTime[p][1]))]
    /\ UNCHANGED <<now, sendTime, arrival, dropped, setup, codec, apart>>

\* Pinger::ping, step 7, reached after step 5: the timer elapsed
TimedTimeout(p) ==
    /\ sendTime[p] # None
    /\ PingTimeout(p)
    /\ UNCHANGED aside

\* One client that is kept, its pingers' calls and the receiver, with the clock
TimeNext ==
    \/ Tick
    \/ \E p \in Pingers, s \in Seqs : TimedRegister(p, s)
    \/ \E p \in Pingers, replied \in BOOLEAN : TimedSendOk(p, replied)
    \/ \E p \in Pingers : RecordSendTime(p)
    \/ \E d \in net : TimedRecv(d)
    \/ \E p \in Pingers : TimedReply(p)
    \/ \E p \in Pingers : TimedTimeout(p)

TimeSpec == Init /\ [][TimeNext]_vars

\* ------------------------------------------------------- a noisy network

\* The datagrams in flight that no pinger of this client asked for
Noise(n) == {d \in n : Decode(d) # "Ok" \/ d.copy # 1}

\* recv_from has one more datagram to hand over, which will not decode: a
\* truncated message, an echo request looped back, another family's traffic
NetGarbage(e) ==
    /\ Cardinality(Noise(net)) < MaxNoise
    /\ net' = net \cup {Undecodable(e)}
    /\ UNCHANGED <<sockType, linux, client, alive, inner, recv, pinger, calls, aside>>

\* The network duplicates an echo reply on its way
NetDuplicate(d) ==
    /\ d \in net
    /\ Decode(d) = "Ok"
    /\ d.copy = 1
    /\ Cardinality(Noise(net)) < MaxNoise
    /\ net' = net \cup {[d EXCEPT !.copy = 2]}
    /\ UNCHANGED <<sockType, linux, client, alive, inner, recv, pinger, calls, aside>>

\* Pinger::ping, step 1, of a call during which nothing was dropped yet
NoisyRegister(p, s) ==
    /\ PingRegister(p, s)
    /\ dropped' = [dropped EXCEPT ![p] = 0]
    /\ UNCHANGED <<clock, setup, codec, apart>>

\* recv_task, one turn of the loop, counting what it drops on a decode error
NoisyRecv(d) ==
    /\ Decode(d) # "Ok" => \A p \in Pingers : Active(p) => dropped[p] < MaxGarbage
    /\ RecvTask(d)
    /\ dropped' = [p \in Pingers |-> IF Decode(d) # "Ok" /\ Active(p)
                                     THEN dropped[p] + 1 ELSE dropped[p]]
    /\ UNCHANGED <<clock, setup, codec, apart>>

\* One client that is kept, its pingers and the receiver, on a network that
\* duplicates replies and delivers datagrams that do not decode
NoisyNext ==
    \/ \E e \in DecodeErrors : NetGarbage(e)
    \/ \E d \in net : NetDuplicate(d)
    \/ \E p \in Pingers, s \in Seqs : NoisyRegister(p, s)
    \/ \E d \in net : NoisyRecv(d)
    \/ \E p \in Pingers, replied \in BOOLEAN : PingSendOk(p, replied) /\ UNCHANGED aside
    \/ \E p \in Pingers : PingSendFail(p) /\ UNCHANGED aside
    \/ \E p \in Pingers : PingReply(p) /\ UNCHANGED aside
    \/ \E p \in Pingers : PingClosed(p) /\ UNCHANGED aside
    \/ \E p \in Pingers : PingTimeout(p) /\ UNCHANGED aside
    \/ \E p \in Pingers : PingCancel(p) /\ UNCHANGED aside
    \/ \E p \in Pingers : PingerDrop(p) /\ UNCHANGED aside

NoisySpec == Init /\ [][NoisyNext]_vars

\* ------------------------------------------------ Config and Client::new

\* The values the setters are called with
ICMPKinds == {"V4", "V6"}
Options ==
    [bind |-> {"0.0.0.0:0", "127.0.0.1:0"}, interface |-> {"lo", "eth0"},
     interface_index |-> {1, 2}, ttl |-> {64, 128}, fib |-> {1, 2}]

\* ConfigBuilder::bind
SetBind(b, a) == [b EXCEPT !.bind = Some(a)]

\* ConfigBuilder::interface
SetInterface(b, i) == [b EXCEPT !.interface = Some(i)]

\* ConfigBuilder::interface_index
SetInterfaceIndex(b, n) == [b EXCEPT !.interface_index = Some(n)]

\* A ttl setter that keeps the value of an earlier call
SetTtlFirstWins(b, t) == IF b.ttl = None THEN [b EXCEPT !.ttl = Some(t)] ELSE b

\* ConfigBuilder::ttl
SetTtl(b, t) == [b EXCEPT !.ttl = Some(t)]

\* ConfigBuilder::fib
SetFib(b, f) == [b EXCEPT !.fib = Some(f)]

\* ConfigBuilder::kind
SetKind(b, k) == [b EXCEPT !.kind = k]

\* ConfigBuilder::sock_type_hint
SetSockTypeHint(b, t) == [b EXCEPT !.sock_type_hint = t]

\* ConfigBuilder::build
Build(b) ==
    [sock_type_hint |-> b.sock_type_hint, kind |-> b.kind, bind |-> b.bind,
     interface |-> b.interface, interface_index |-> b.interface_index,
     ttl |-> b.ttl, fib |-> b.fib]

\* One setter call in the chain: the setter takes the builder and returns it
Chain(name, v, b2) ==
    /\ ~builder.moved
    /\ Len(builder.calls) < MaxSetters
    /\ builder' = [builder EXCEPT !.b = b2, !.calls = Append(@, <<name, v>>)]
    /\ UNCHANGED <<config, newClient, core, clock, dropped, codec, apart>>

BuilderBind(a) == Chain("bind", a, SetBind(builder.b, a))
BuilderInterface(i) == Chain("interface", i, SetInterface(builder.b, i))
BuilderInterfaceIndex(n) == Chain("interface_index", n, SetInterfaceIndex(builder.b, n))
BuilderTtl(t) == Chain("ttl", t, SetTtl(builder.b, t))
BuilderFib(f) == Chain("fib", f, SetFib(builder.b, f))
BuilderKind(k) == Chain("kind", k, SetKind(builder.b, k))
BuilderSockTypeHint(t) == Chain("sock_type_hint", t, SetSockTypeHint(builder.b, t))

\* .build() ends the chain
BuilderBuild ==
    /\ ~builder.moved
    /\ config' = Some(Build(builder.b))
    /\ builder' = [builder EXCEPT !.moved = TRUE]
    /\ UNCHANGED <<newClient, core, clock, dropped, codec, apart>>

\* create_socket: the socket types it tries to open, in order
SocketTries(hint, opens) ==
    IF hint \in opens THEN <<hint>> ELSE <<hint, OtherType(hint)>>

\* create_socket: the second Socket::new failed as well
CreateSocketFails(hint, opens) == hint \notin opens /\ OtherType(hint) \notin opens

\* Client::new(&config) where the kernel lets the process open the socket types
\* opens, and the options of the configuration can be set (setupOk) or one of
\* them fails: AsyncSocket::new(config)?, then the map and the receiver task
ClientNewResult(c, opens, setupOk) ==
    LET ok == ~CreateSocketFails(c.sock_type_hint, opens) /\ setupOk
    IN [opens |-> opens,
        tries |-> SocketTries(c.sock_type_hint, opens),
        res |-> IF ok THEN "Ok" ELSE "Err",
        sock_type |-> IF ok THEN Some(CreateSocket(c.sock_type_hint, opens)) ELSE None,
        recv |-> IF ok THEN "running" ELSE "none"]

ClientNew(opens, setupOk) ==
    /\ config # None
    /\ newClient = None
    /\ newClient' = Some(ClientNewResult(config[1], opens, setupOk))
    /\ UNCHANGED <<builder, config, core, clock, dropped, codec, apart>>

\* A configuration is put together and a client is made from it
ConfigNext ==
    \/ \E a \in Options.bind : BuilderBind(a)
    \/ \E i \in Options.interface : BuilderInterface(i)
    \/ \E n \in Options.interface_index : BuilderInterfaceIndex(n)
    \/ \E t \in Options.ttl : BuilderTtl(t)
    \/ \E f \in Options.fib : BuilderFib(f)
    \/ \E k \in ICMPKinds : BuilderKind(k)
    \/ \E t \in SockTypes : BuilderSockTypeHint(t)
    \/ BuilderBuild
    \/ \E opens \in SUBSET SockTypes, setupOk \in BOOLEAN : ClientNew(opens, setupOk)

ConfigSpec == Init /\ [][ConfigNext]_vars

\* ------------------------------------------------- datagrams on the wire

\* The identifiers and sequences the codec is tried on: the two octets differ
WireIdents == {0, 258, 65535}
WireSeqs == {1, 513}

\* The one datagram of the run: an echo request comes back to the socket (the
\* host is this one)
WireRequest(fam, id, seq, payload) ==
    /\ wire = None
    /\ wire' = Some([fam |-> fam, src |-> HostAddr(fam), what |-> "request",
                     id |-> id, seq |-> seq, dest |-> HostAddr(fam), cut |-> FALSE,
                     size |-> Len(payload),
                     bytes |-> AsReceived(fam, EchoRequestBytes(fam, id, seq, payload, sockType),
                                          sockType, HostAddr(fam))])
    /\ out' = None
    /\ UNCHANGED <<core, clock, dropped, setup, apart>>

\* The host answers the request: the same message with the type of the reply
WireRetype ==
    /\ wire # None
    /\ wire[1].what = "request"
    /\ out = None
    /\ ~wire[1].cut
    /\ LET w == wire[1]
           at == IcmpOffset(w.fam, sockType) + 1
       IN wire' = Some([w EXCEPT !.what = "reply",
                                 !.bytes = [w.bytes EXCEPT ![at] = EchoReplyType[w.fam]]])
    /\ UNCHANGED <<out, core, clock, dropped, setup, apart>>

\* The ICMP error message about the echo request req that was sent to dest:
\* type, code and checksum, four unused octets, the IP header of the request
\* and the first eight octets of its ICMP message
ErrorMessage(fam, type, req, dest) ==
    <<type, 0, 0, 0>> \o Zeros(4)
       \o (IF fam = "V4" THEN Ipv4Header(LocalAddr(fam), dest, Len(req))
           ELSE Ipv6Header(LocalAddr(fam), dest, Len(req)))
       \o SubSeq(req, 1, 8)

\* A router reports an error about a request to dest
WireError(fam, type, id, seq, dest) ==
    LET icmp == ErrorMessage(fam, type, EchoRequestBytes(fam, id, seq, << >>, sockType), dest)
    IN /\ wire = None
       /\ wire' = Some([fam |-> fam, src |-> Addr(fam, 254), what |-> "error",
                        id |-> id, seq |-> seq, dest |-> dest, cut |-> FALSE,
                        size |-> 0,
                        bytes |-> AsReceived(fam, icmp, sockType, Addr(fam, 254))])
       /\ out' = None
       /\ UNCHANGED <<core, clock, dropped, setup, apart>>

\* The datagram arrives cut short
WireTruncate(n) ==
    /\ wire # None
    /\ out = None
    /\ ~wire[1].cut
    /\ n < Len(wire[1].bytes)
    /\ wire' = Some([wire[1] EXCEPT !.cut = TRUE, !.bytes = SubSeq(@, 1, n)])
    /\ UNCHANGED <<out, core, clock, dropped, setup, apart>>

\* recv_task decodes it
WireDecode ==
    /\ wire # None
    /\ out = None
    /\ out' = Some(DecodeBuf(wire[1].fam, wire[1].bytes, sockType, wire[1].src))
    /\ UNCHANGED <<wire, core, clock, dropped, setup, apart>>

\* Datagrams are made, cut and decoded
CodecNext ==
    \/ \E fam \in ICMPKinds, id \in WireIdents, seq \in WireSeqs, n \in 0..MaxPayload :
          WireRequest(fam, id, seq, [i \in 1..n |-> 170 + i])
    \/ WireRetype
    \/ \E fam \in ICMPKinds, id \in WireIdents, seq \in WireSeqs :
          \E type \in (IF fam = "V4" THEN {3, 11} ELSE {1, 3}), dest \in {HostAddr(fam), Localhost[fam]} :
              WireError(fam, type, id, seq, dest)
    \/ \E n \in 0..64 : WireTruncate(n)
    \/ WireDecode

CodecSpec == Init /\ [][CodecNext]_vars

\* ----------------------------------------------- requests looped back

\* p's own echo request as the socket receives it when the host pinged is this
\* one: the peer address, identifier and sequence are those of p's waiter
LoopedRequest(p, fam) ==
    [src |-> pinger[p].host, id |-> WireIdent(p), seq |-> pinger[p].seq,
     from |-> p, late |-> FALSE, copy |-> 1, fam |-> fam,
     buf |-> AsReceived(fam, EchoRequestBytes(fam, pinger[p].hint, pinger[p].seq, << >>,
                                              sockType),
                        sockType, HostAddr(fam))]

\* The request p has sent comes back to the socket
NetLoopback(p, fam) ==
    /\ pinger[p].st = "awaiting"
    /\ Cardinality(Noise(net)) < MaxNoise
    /\ net' = net \cup {LoopedRequest(p, fam)}
    /\ UNCHANGED <<sockType, linux, client, alive, inner, recv, pinger, calls, aside>>

\* One client that is kept, its pingers and the receiver, where requests come
\* back to the socket that sent them
LoopbackNext ==
    \/ \E p \in Pingers, fam \in ICMPKinds : NetLoopback(p, fam)
    \/ \E p \in Pingers, s \in Seqs : NoisyRegister(p, s)
    \/ \E d \in net : NoisyRecv(d)
    \/ \E p \in Pingers, replied \in BOOLEAN : PingSendOk(p, replied) /\ UNCHANGED aside
    \/ \E p \in Pingers : PingSendFail(p) /\ UNCHANGED aside
    \/ \E p \in Pingers : PingReply(p) /\ UNCHANGED aside
    \/ \E p \in Pingers : PingClosed(p) /\ UNCHANGED aside
    \/ \E p \in Pingers : PingTimeout(p) /\ UNCHANGED aside
    \/ \E p \in Pingers : PingCancel(p) /\ UNCHANGED aside
    \/ \E p \in Pingers : PingerDrop(p) /\ UNCHANGED aside

LoopbackSpec == Init /\ [][LoopbackNext]_vars

\* ------------------------------------- new_waiter beside a client's drop

\* ReplyMap::new_waiter, up to the load of alive, which is made without the
\* lock of the map: Err(ClientDestroyed) when it reads false, on to the insert
\* when it reads true
RaceLoad(p, s) ==
    /\ pinger[p].st = "idle"
    /\ calls < MaxCalls
    /\ calls' = calls + 1
    /\ pinger' = [pinger EXCEPT ![p] =
                     IF alive THEN [@ EXCEPT !.st = "checked", !.seq = s]
                     ELSE [@ EXCEPT !.seq = s, !.res = "ClientDestroyed"]]
    /\ UNCHANGED <<sockType, linux, client, alive, inner, recv, net>>

\* ReplyMap::new_waiter, from the channel on: the insert under the lock, by a
\* call that has read alive as true, and step 1 of Pinger::ping on its result
RaceInsert(p) ==
    LET tok == TokenOf(p, pinger[p].seq)
        r == NewWaiterResult(TRUE, inner, tok)
        m2 == NewWaiterMap(TRUE, inner, tok, p)
        me == IF r = "Ok"
              THEN [pinger[p] EXCEPT !.st = "sending", !.rx = "empty", !.res = "none"]
              ELSE [pinger[p] EXCEPT !.st = "idle", !.res = r]
    IN /\ pinger[p].st = "checked"
       /\ inner' = m2
       /\ pinger' = CloseOthers([pinger EXCEPT ![p] = me], inner, m2, p)
       /\ UNCHANGED <<sockType, linux, client, alive, recv, net, calls>>

\* The client, its pingers and the receiver on threads of their own: a client
\* is dropped on one thread while ping() runs through new_waiter on another
RaceNext ==
    \/ \E p \in Pingers, s \in Seqs : RaceLoad(p, s) /\ UNCHANGED aside
    \/ \E p \in Pingers : RaceInsert(p) /\ UNCHANGED aside
    \/ ClientClone /\ UNCHANGED aside
    \/ DropClient /\ UNCHANGED aside
    \/ DropRelease /\ UNCHANGED aside
    \/ \E p \in Pingers, replied \in BOOLEAN : PingSendOk(p, replied) /\ UNCHANGED aside
    \/ \E p \in Pingers : PingSendFail(p) /\ UNCHANGED aside
    \/ \E p \in Pingers : PingReply(p) /\ UNCHANGED aside
    \/ \E p \in Pingers : PingClosed(p) /\ UNCHANGED aside
    \/ \E p \in Pingers : PingTimeout(p) /\ UNCHANGED aside
    \/ \E p \in Pingers : PingCancel(p) /\ UNCHANGED aside
    \/ \E p \in Pingers : PingerDrop(p) /\ UNCHANGED aside
    \/ \E d \in net : RecvTask(d) /\ UNCHANGED aside

RaceSpec == Init /\ [][RaceNext]_vars

\* ------------------------------------------ error messages about requests

\* The peers recv_from names: the hosts that are pinged, and a router on the
\* way to them
PeerAddr(h, fam) == IF h \in Hosts THEN HostAddr(fam) ELSE Addr(fam, 254)

\* The Time Exceeded message that the peer `from` sends about the request of
\* p's ping() in flight, as recv_task has it from recv_from and the decoder: the
\* identifier and the sequence are the decoded packet's
IcmpError(p, fam, from) ==
    LET req == EchoRequestBytes(fam, WireIdent(p), pinger[p].seq, << >>, "RAW")
        icmp == ErrorMessage(fam, IF fam = "V4" THEN 11 ELSE 3, req, HostAddr(fam))
        buf == AsReceived(fam, icmp, sockType, PeerAddr(from, fam))
        packet == DecodeBuf(fam, buf, sockType, PeerAddr(from, fam))
    IN [src |-> from, id |-> packet.identifier, seq |-> packet.sequence,
        from |-> p, late |-> FALSE, copy |-> 1, fam |-> fam, buf |-> buf]

\* The request of p is answered with an error message, by a router or by the
\* host itself
NetIcmpError(p, fam, from) ==
    /\ pinger[p].st = "awaiting"
    /\ Cardinality({d \in net : "buf" \in DOMAIN d}) < MaxNoise
    /\ net' = net \cup {IcmpError(p, fam, from)}
    /\ UNCHANGED <<sockType, linux, client, alive, inner, recv, pinger, calls, aside>>

\* recv_task, one turn of the loop; out keeps the packet it decoded
RouterRecv(d) ==
    /\ RecvTask(d)
    /\ out' = IF "buf" \in DOMAIN d
              THEN Some(DecodeBuf(d.fam, d.buf, sockType, PeerAddr(d.src, d.fam)))
              ELSE out
    /\ UNCHANGED <<clock, dropped, setup, wire, apart>>

\* One client that is kept, its pingers and the receiver, on a network where
\* requests are answered with error messages
RouterNext ==
    \/ \E p \in Pingers, fam \in ICMPKinds, from \in Hosts \cup {"r1"} : NetIcmpError(p, fam, from)
    \/ \E d \in net : RouterRecv(d)
    \/ \E p \in Pingers, s \in Seqs : PingRegister(p, s) /\ UNCHANGED aside
    \/ \E p \in Pingers, replied \in BOOLEAN : PingSendOk(p, replied) /\ UNCHANGED aside
    \/ \E p \in Pingers : PingSendFail(p) /\ UNCHANGED aside
    \/ \E p \in Pingers : PingReply(p) /\ UNCHANGED aside
    \/ \E p \in Pingers : PingClosed(p) /\ UNCHANGED aside
    \/ \E p \in Pingers : PingTimeout(p) /\ UNCHANGED aside
    \/ \E p \in Pingers : PingCancel(p) /\ UNCHANGED aside
    \/ \E p \in Pingers : PingerDrop(p) /\ UNCHANGED aside

RouterSpec == Init /\ [][RouterNext]_vars

\* ------------------------------------------------ the lock of the reply map

\* who holds the lock of ReplyMap.inner
Holds(who) == lock # None /\ lock[1].who = who

\* The operation op on the map is about to be made by who: a pinger, or the
\* receiver (0) for the datagram Some(d)
Wants(who, op, d) ==
    CASE op = "insert" -> who \in Pingers /\ pinger[who].st = "checked"
      [] op = "sendfail" -> who \in Pingers /\ pinger[who].st = "sending"
      [] op = "timeout" -> who \in Pingers /\ pinger[who].st = "awaiting"
                              /\ pinger[who].rx = "empty"
      [] op = "drop" -> who \in Pingers /\ pinger[who].st = "idle" /\ pinger[who].last # None
      [] op = "recv" -> who = 0 /\ recv = "running" /\ d # None /\ d[1] \in net
                           /\ Decode(d[1]) = "Ok"
      [] OTHER -> FALSE

\* The datagram d that the receiver has taken for its turn, as net keeps it:
\* the call it answers may be over by now
InHand(d) == CHOOSE e \in net : [e EXCEPT !.late = d.late] = d

\* self.inner.lock(): parking_lot's Mutex is taken when it is free; the caller
\* blocks while it is not
LockAcquire(who, op, d) ==
    /\ lock = None
    /\ Wants(who, op, d)
    /\ lock' = Some([who |-> who, op |-> op, d |-> d])
    /\ UNCHANGED <<core, clock, dropped, setup, codec, pingsocket, ownsocket>>

\* A guard that stays alive after the operation it was taken for
LockReleaseKeeps ==
    /\ lock # None
    /\ CASE lock[1].op = "insert" -> RaceInsert(lock[1].who)
         [] lock[1].op = "sendfail" -> PingSendFail(lock[1].who)
         [] lock[1].op = "timeout" -> PingTimeout(lock[1].who)
         [] lock[1].op = "drop" -> PingerDrop(lock[1].who)
         [] lock[1].op = "recv" -> RecvTask(InHand(lock[1].d[1]))
    /\ UNCHANGED <<lock, clock, dropped, setup, codec, pingsocket, ownsocket>>

\* The one insert or remove under the lock, and the end of the statement that
\* holds the guard: new_waiter's insert, remove for Pinger::ping (send failure,
\* timeout), for Drop for Pinger and for recv_task, which sends after remove
\* has returned
LockRelease ==
    /\ lock # None
    /\ CASE lock[1].op = "insert" -> RaceInsert(lock[1].who)
         [] lock[1].op = "sendfail" -> PingSendFail(lock[1].who)
         [] lock[1].op = "timeout" -> PingTimeout(lock[1].who)
         [] lock[1].op = "drop" -> PingerDrop(lock[1].who)
         [] lock[1].op = "recv" -> RecvTask(InHand(lock[1].d[1]))
    /\ lock' = None
    /\ UNCHANGED <<clock, dropped, setup, codec, pingsocket, ownsocket>>

\* The pingers, the receiver and the drop of the client on threads of their
\* own, each map operation in its two steps.  What does not touch the map runs
\* beside a held lock, except the holder's own steps (the holder is inside a
\* call that does not suspend) and the abort of the receiver, which takes
\* effect at the receiver's next await and so after its release
LockNext ==
    \/ \E p \in Pingers, s \in Seqs : RaceLoad(p, s) /\ ~Holds(p) /\ UNCHANGED aside
    \/ \E p \in Pingers, op \in {"insert", "sendfail", "timeout", "drop"} :
          LockAcquire(p, op, None)
    \/ \E d \in net : LockAcquire(0, "recv", Some(d))
    \/ LockRelease
    \/ DropClient /\ ~Holds(0) /\ UNCHANGED aside
    \/ \E p \in Pingers, replied \in BOOLEAN :
          PingSendOk(p, replied) /\ ~Holds(p) /\ UNCHANGED aside
    \/ \E p \in Pingers : PingReply(p) /\ UNCHANGED aside
    \/ \E p \in Pingers : PingClosed(p) /\ UNCHANGED aside
    \/ \E p \in Pingers : PingCancel(p) /\ ~Holds(p) /\ UNCHANGED aside
    \/ \E p \in Pingers : PingerDrop(p) /\ pinger[p].last = None /\ UNCHANGED aside

LockSpec == Init /\ [][LockNext]_vars

\* ------------------------------------------- PingSocket (pingsocket.rs)

\* PingSocket::pinger, up to its await of check_task: the channel is made and
\* its Sender put into the map under the lock, in place of the one that was
\* there for the address
PingSocketPinger(c, addr) ==
    /\ asked[c].pc = "idle"
    /\ pmap' = [a \in DOMAIN pmap \cup {addr} |-> IF a = addr THEN c ELSE pmap[a]]
    /\ asked' = [asked EXCEPT ![c] = [pc |-> "inserted", addr |-> Some(addr), rx |-> TRUE]]
    /\ UNCHANGED <<recv_task, run_task, lock, ownsocket, core, clock, dropped, setup, codec>>

\* PingSocket::check_task, and the return of pinger: under the lock of the
\* handle, a receive task is spawned unless a handle is there
CheckTask(c) ==
    /\ asked[c].pc = "inserted"
    /\ asked' = [asked EXCEPT ![c].pc = "returned"]
    /\ IF recv_task # None
       THEN UNCHANGED <<recv_task, run_task>>
       ELSE /\ recv_task' = Some(run_task.n + 1)
            /\ run_task' = [pc |-> "recv_from", from |-> None, failed |-> FALSE,
                            n |-> run_task.n + 1]
    /\ UNCHANGED <<pmap, lock, ownsocket, core, clock, dropped, setup, codec>>

\* The caller drops the Pinger that pinger() returned, and with it the Receiver
PingSocketPingerDrop(c) ==
    /\ asked[c].pc = "returned"
    /\ asked[c].rx
    /\ asked' = [asked EXCEPT ![c].rx = FALSE]
    /\ UNCHANGED <<pmap, recv_task, run_task, lock, ownsocket, core, clock, dropped, setup, codec>>

\* run_task, the await of recv_from: a datagram from addr, or an error that
\* ends the loop
RunTaskRecvFrom(addr, ok) ==
    /\ run_task.pc = "recv_from"
    /\ run_task' = IF ok THEN [run_task EXCEPT !.pc = "lock", !.from = Some(addr)]
                   ELSE [run_task EXCEPT !.pc = "exit", !.failed = TRUE]
    /\ UNCHANGED <<pmap, recv_task, asked, lock, ownsocket, core, clock, dropped, setup, codec>>

\* run_task, from the lock of the map to the end of the turn of the loop: the
\* datagram goes to the channel of its address; when try_send fails (the
\* Receiver is gone, or the channel is full) the address leaves the map, and
\* the loop ends when the map is empty
RunTaskDeliver(full) ==
    LET a == run_task.from[1]
        left == [b \in DOMAIN pmap \ {a} |-> pmap[b]]
    IN /\ run_task.pc = "lock"
       /\ IF a \notin DOMAIN pmap \/ (asked[pmap[a]].rx /\ ~full)
          THEN /\ run_task' = [run_task EXCEPT !.pc = "recv_from", !.from = None]
               /\ UNCHANGED pmap
          ELSE /\ pmap' = left
               /\ run_task' = [run_task EXCEPT !.from = None,
                                  !.pc = IF left = << >> THEN "exit" ELSE "recv_from"]
       /\ UNCHANGED <<recv_task, asked, lock, ownsocket, core, clock, dropped, setup, codec>>

\* run_task, after the loop: the handle is cleared under its lock
RunTaskClear ==
    /\ run_task.pc = "exit"
    /\ recv_task' = None
    /\ run_task' = [run_task EXCEPT !.pc = "done"]
    /\ UNCHANGED <<pmap, asked, lock, ownsocket, core, clock, dropped, setup, codec>>

\* A PingSocket, the pinger() calls made on it and its receive task. The two
\* Mutexes are tokio's; no step awaits while it holds one, so a locked
\* section is one step.
PingSocketNext ==
    \/ \E c \in 1..MaxAsks, addr \in {"a", "b"} : PingSocketPinger(c, addr)
    \/ \E c \in 1..MaxAsks : CheckTask(c)
    \/ \E c \in 1..MaxAsks : PingSocketPingerDrop(c)
    \/ \E addr \in {"a", "b"}, ok \in BOOLEAN : RunTaskRecvFrom(addr, ok)
    \/ \E full \in BOOLEAN : RunTaskDeliver(full)
    \/ RunTaskClear

PingSocketSpec == Init /\ [][PingSocketNext]_vars

\* ------------------------------------ the Pinger with a cache (ping.rs)

\* Pinger::ping, up to its select: the task that sends is spawned
CachePing(s) ==
    /\ select.st \in {"idle", "returned"}
    /\ send_task[s] = "none"
    /\ select' = [select EXCEPT !.st = "select", !.seq = s, !.res = "none"]
    /\ send_task' = [send_task EXCEPT ![s] = "send_to"]
    /\ UNCHANGED <<cache, socket, lock, pingsocket, core, clock, dropped, setup, codec>>

\* The spawned task, the await of send_to: the request is sent, or the task
\* panics at expect
CacheSendTo(s, ok) ==
    /\ send_task[s] = "send_to"
    /\ send_task' = [send_task EXCEPT ![s] = IF ok THEN "insert" ELSE "panicked"]
    /\ UNCHANGED <<cache, select, socket, lock, pingsocket, core, clock, dropped, setup, codec>>

\* The spawned task after send_to: Cache::insert
CacheInsert(s) ==
    /\ send_task[s] = "insert"
    /\ cache' = cache \cup {<<select.ident, s>>}
    /\ send_task' = [send_task EXCEPT ![s] = "done"]
    /\ UNCHANGED <<select, socket, lock, pingsocket, core, clock, dropped, setup, codec>>

\* A datagram reaches the socket: an echo reply (one with the Pinger's ident
\* answers a request that was sent) or one that does not decode
SocketArrive(d) ==
    /\ d \notin socket
    /\ d.what = "reply" /\ d.ident = select.ident => send_task[d.seq] \in {"insert", "done"}
    /\ socket' = socket \cup {d}
    /\ UNCHANGED <<cache, send_task, select, lock, pingsocket, core, clock, dropped, setup, codec>>

\* Pinger::recv_reply, one turn of its loop, in the first arm of the select:
\* the reply to this call returns Ok when Cache::remove finds the send time;
\* a datagram that does not decode returns the error, after Cache::remove
CacheRecvReply(d) ==
    LET token == <<select.ident, select.seq>>
    IN /\ select.st = "select"
       /\ d \in socket
       /\ socket' = socket \ {d}
       /\ IF d.what = "bad"
          THEN /\ cache' = cache \ {token}
               /\ select' = [select EXCEPT !.st = "returned", !.res = "Err"]
          ELSE IF d.ident = select.ident /\ d.seq = select.seq /\ token \in cache
          THEN /\ cache' = cache \ {token}
               /\ select' = [select EXCEPT !.st = "returned", !.res = "Ok"]
          ELSE UNCHANGED <<cache, select>>
       /\ UNCHANGED <<send_task, lock, pingsocket, core, clock, dropped, setup, codec>>

\* The second arm of the select: the sleep is over, Cache::remove, Timeout
CacheSleep ==
    /\ select.st = "select"
    /\ cache' = cache \ {<<select.ident, select.seq>>}
    /\ select' = [select EXCEPT !.st = "returned", !.res = "Timeout"]
    /\ UNCHANGED <<send_task, socket, lock, pingsocket, core, clock, dropped, setup, codec>>

\* One Pinger of ping.rs, its ping() calls one after the other, the tasks they
\* spawn and the datagrams of its socket
CacheNext ==
    \/ \E s \in Seqs : CachePing(s)
    \/ \E s \in Seqs, ok \in BOOLEAN : CacheSendTo(s, ok)
    \/ \E s \in Seqs : CacheInsert(s)
    \/ \E d \in [what : {"reply"}, ident : {1, 2}, seq : Seqs]
               \cup {[what |-> "bad", ident |-> 0, seq |-> 0]} : SocketArrive(d)
    \/ \E d \in socket : CacheRecvReply(d)
    \/ CacheSleep

CacheSpec == Init /\ [][CacheNext]_vars

\* ---------------------------------------------------------------- claims

\* The token of p's current (or last) ping
CurToken(p) == TokenOf(p, pinger[p].seq)

\* The senders of the map that pinger p's calls put there, of the given kinds
Entries(p, kinds) == {t \in DOMAIN inner : inner[t].owner = p /\ inner[t].kind \in kinds}

\* p's last ping() has returned res
Returned(p, res) == pinger[p].st = "idle" /\ pinger[p].res = res

C1_Distinct ==
    \A p, q \in Pingers :
        Active(p) /\ Active(q) /\ p # q =>
            /\ CurToken(p) # CurToken(q)
            /\ CurToken(p) \in DOMAIN inner
            /\ inner[CurToken(p)] = Sender(p, "live")

\* C1: at most one waiter is registered per ReplyToken.  Any two pings whose
\* new_waiter returned Ok and whose slots are still open have different tokens
\* (each is the entry of the map under its token), and a new_waiter for the token
\* of an open slot returns an error.
C1_OneWaiterPerToken ==
    [][/\ C1_Distinct
       /\ C1_Distinct'
       /\ \A p \in Pingers, s \in Seqs :
             PingRegister(p, s) /\ (\E q \in Pingers : Active(q) /\ CurToken(q) = TokenOf(p, s))
                => pinger'[p].st = "idle"
                   /\ pinger'[p].res \in {"IdenticalRequests", "ClientDestroyed"}]_vars

\* C1 witness: a registration was rejected for the token of a ping in flight
C1_Witness ==
    \E p, q \in Pingers :
        /\ p # q
        /\ Returned(p, "IdenticalRequests")
        /\ pinger[q].st \in {"sending", "awaiting"}
        /\ CurToken(p) = CurToken(q)

\* C2: new_waiter for a token that is already registered returns
\* IdenticalRequests and does not modify the reply map: the slot under the token
\* is still the first waiter's sender and the first waiter is not failed.
C2_RejectionLeavesMap ==
    [][\A p \in Pingers, s \in Seqs :
          PingRegister(p, s) /\ alive /\ TokenOf(p, s) \in DOMAIN inner
             => /\ pinger'[p].res = "IdenticalRequests"
                /\ inner' = inner
                /\ \A q \in Pingers \ {p} : pinger'[q] = pinger[q]]_vars

\* C3: once a ping call has returned, whatever its outcome, no entry keyed by its
\* ReplyToken that the call itself put there remains in the reply map.
C3_NoEntryAfterReturn ==
    \A p \in Pingers :
        pinger[p].st = "idle"
        /\ pinger[p].res \in {"Ok", "Timeout", "NetworkError", "IOError",
                              "IdenticalRequests", "ClientDestroyed"}
           => ~(CurToken(p) \in DOMAIN inner /\ inner[CurToken(p)].owner = p)

\* C4: cancellation never leaks a slot: the waiter of a ping() whose future was
\* dropped is out of the map at the latest when its pinger has been dropped.
C4_CancelNeverLeaks ==
    \A p \in Pingers : pinger[p].st = "dropped" => Entries(p, {"cancelled"}) = {}

\* C5: no waiter outlives its pinger: once a pinger has been dropped the map
\* holds no waiter that one of its new_waiter calls registered (returned Ok for).
C5_NoWaiterOutlivesPinger ==
    \A p \in Pingers :
        pinger[p].st = "dropped" => Entries(p, {"live", "cancelled", "returned"}) = {}

\* C6: a reply that arrives when the waiter of its token is out of the map (by
\* timeout, say) is dropped: the turn of the receiver changes neither the map nor
\* any pinger.  A ping that returned Timeout left no waiter of its own in the
\* map, and no later turn of the receiver changes what its caller got.
C6_LateReplyDropped ==
    [][/\ \A p \in Pingers : Returned(p, "Timeout") => Entries(p, {"live", "returned"}) = {}
       /\ \A d \in net :
             RecvTask(d) =>
                /\ RecvToken(d) \notin DOMAIN inner => UNCHANGED <<inner, pinger>>
                /\ \A p \in Pingers : Returned(p, "Timeout") => pinger'[p] = pinger[p]]_vars

\* C6 witness: a ping has timed out, the reply to it is still on its way and the
\* receiver, which is running, will find no waiter for it
C6_Witness ==
    \E p \in Pingers, d \in net :
        /\ Returned(p, "Timeout")
        /\ d.from = p /\ d.late /\ d.seq = pinger[p].seq
        /\ RecvToken(d) \notin DOMAIN inner
        /\ recv = "running"

C8_PingerSurvivesClientDrop ==
    \A p \in Pingers : pinger[p].res # "ClientDestroyed"

\* C9: while at least one clone of the client is alive the reply map is not
\* marked destroyed (so that new_waiter for an unused token returns Ok).
C9_DestroyedOnlyWithLastClone ==
    client.live >= 1 => alive

\* C10: while any clone of the client exists the receiver task has not been
\* aborted.
C10_ReceiverAliveWhileCloneExists ==
    client.live >= 1 => recv = "running"

\* C10 witness: one Client value has gone through its Drop and released its
\* fields while another is alive
C10_Witness ==
    client.live >= 1 /\ client.dropping = 0 /\ ~alive /\ recv = "running"

\* C11: once every clone of the client has been dropped (each has run its Drop
\* and released its fields) the receiver has been aborted, also when several
\* clones evaluate the strong-count test before any of them releases its
\* reference.
C11_LastDropAborts ==
    client.live = 0 /\ client.dropping = 0 => recv = "aborted"

\* C12: when the client is destroyed (its last clone has run Drop) the reply map
\* is drained: no waiter's sender is left in it with its Receiver held by a
\* ping() in flight, and no ping() still waits on an open slot.
C12_DestroyedDrainsMap ==
    client.live = 0 => \A p \in Pingers : ~Active(p) /\ Entries(p, {"live"}) = {}

\* C13: every ping call eventually returns, whatever happens to the client and
\* whether or not a reply arrives, provided send_to completes and the timer
\* fires: a ping() in flight leads to the pinger being idle again with one of the
\* results (or with its future dropped by the caller).
C13_PingReturns ==
    \A p \in Pingers :
        (pinger[p].st \in {"sending", "awaiting"})
            ~> (pinger[p].st = "idle"
                /\ pinger[p].res \in {"Ok", "Timeout", "NetworkError", "IOError", "Cancelled"})

\* C13 witness: a ping awaits its slot, the client is gone, the receiver is
\* aborted and no reply is on its way: only the timer can end the call
C13_Witness ==
    \E p \in Pingers :
        /\ pinger[p].st = "awaiting" /\ pinger[p].rx = "empty"
        /\ client.live = 0 /\ recv = "aborted" /\ net = {}

\* C14: for every ping that returned Ok, the arrival timestamp the receiver took
\* is not earlier than the send timestamp ping took, and the duration returned is
\* arrival minus send (zero when that would be negative), however the receiver
\* and the pinger interleave between the return of send_to and the taking of the
\* send timestamp.
C14_ArrivalNotBeforeSend ==
    \A p \in Pingers :
        Returned(p, "Ok") /\ duration[p] # None =>
            /\ arrival[p][1] >= sendTime[p][1]
            /\ duration[p][1] = SaturatingSub(arrival[p][1], sendTime[p][1])

\* C15: the receiver never terminates on malformed input.  Every turn of its
\* loop leaves it running; a datagram that fails to decode, with whatever error,
\* changes neither the map nor any pinger; and a valid reply whose waiter is
\* registered is delivered to it, however many undecodable datagrams the
\* receiver has dropped before.
C15_GarbageNeverStopsReceiver ==
    [][\A d \in net :
          NoisyRecv(d) =>
             /\ recv' = "running"
             /\ Decode(d) # "Ok" => UNCHANGED <<inner, pinger, alive>>
             /\ Decode(d) = "Ok" /\ RecvToken(d) \in DOMAIN inner
                   /\ inner[RecvToken(d)].kind = "live"
                      => pinger'[inner[RecvToken(d)].owner].rx = "value"]_vars

\* C15 witness: the receiver dropped MaxGarbage undecodable datagrams while a
\* ping was waiting, and then delivered the reply to it
C15_Witness ==
    \E p \in Pingers :
        /\ dropped[p] = MaxGarbage
        /\ pinger[p].st = "awaiting" /\ pinger[p].rx = "value"
        /\ recv = "running"

\* The receiver has had the first copy of a duplicated reply; d is the second
SecondCopy(d) == Decode(d) = "Ok" /\ d.copy = 2 /\ [d EXCEPT !.copy = 1] \notin net

\* One party consumes a slot.  The receiver takes the sender out of the map when
\* it delivers, and only an open slot is ever filled; a datagram with no sender
\* under its token is dropped; the timeout removes the sender of a slot that is
\* still open; after the pinger's drop the token of its last sequence is free; a
\* slot that holds a Reply has no sender left in the map.
C16_OneConsumer ==
    /\ \A p \in Pingers : pinger[p].rx = "value" => Entries(p, {"live"}) = {}
    /\ \A d \in net :
          NoisyRecv(d) /\ Decode(d) = "Ok" =>
             /\ RecvToken(d) \notin DOMAIN inner'
             /\ RecvToken(d) \notin DOMAIN inner => UNCHANGED <<inner, pinger>>
             /\ \A p \in Pingers :
                   pinger'[p] # pinger[p] => pinger[p].rx = "empty" /\ pinger'[p].rx = "value"
    /\ \A p \in Pingers :
          PingTimeout(p) => pinger[p].rx = "empty" /\ CurToken(p) \notin DOMAIN inner'
    /\ \A p \in Pingers :
          PingerDrop(p) /\ pinger[p].last # None
             => TokenOf(p, pinger[p].last[1]) \notin DOMAIN inner'

C17_ReplyToMatchingWaiter ==
    [][\A d \in net :
          RecvTask(d) /\ Decode(d) = "Ok" =>
             /\ \A p \in Pingers :
                   pinger'[p] # pinger[p] =>
                      /\ pinger[p].host = d.src
                      /\ pinger[p].ident = RecvIdent(d)
                      /\ pinger[p].seq = d.seq
                      /\ Active(p)
                      /\ pinger'[p] = [pinger[p] EXCEPT !.rx = "value"]
             /\ \A p \in Pingers :
                   Active(p) /\ CurToken(p) = ReplyToken(d.src, RecvIdent(d), d.seq)
                      => pinger'[p].rx = "value"
             /\ \A t \in DOMAIN inner :
                   t # ReplyToken(d.src, RecvIdent(d), d.seq)
                      => t \in DOMAIN inner' /\ inner'[t] = inner[t]]_vars

\* C17 witness: two pings of one host and one identifier disposition that differ
\* in sequence are in flight; the reply to one is in its slot, the other waiter
\* is still registered and its reply still on its way
C17_Witness ==
    \E p, q \in Pingers :
        /\ pinger[p].host = pinger[q].host /\ pinger[p].ident = pinger[q].ident
        /\ pinger[p].seq # pinger[q].seq
        /\ pinger[p].st = "awaiting" /\ pinger[p].rx = "value"
        /\ Active(q) /\ CurToken(q) \in DOMAIN inner /\ inner[CurToken(q)] = Sender(q, "live")
        /\ \E d \in net : d.from = q /\ ~d.late /\ d.seq = pinger[q].seq

\* Two pingers of the client, created for one host with different identifiers
C18_TwoFlows(p, q) ==
    p # q /\ pinger[p].host = pinger[q].host /\ pinger[p].hint # pinger[q].hint

\* While q's ping with sequence s is outstanding, p's registration of the same
\* sequence succeeds and leaves q's ping alone
C18_BothRegister(p, q) ==
    \A s \in Seqs :
        PingRegister(p, s) /\ alive /\ Active(q) /\ pinger[q].seq = s
           => pinger'[p].st = "sending" /\ pinger'[q] = pinger[q]

\* While q's ping with sequence s is outstanding, p's registration of the same
\* sequence leaves q's ping alone and is not refused on account of it: when it
\* returns IdenticalRequests, the map holds a waiter of p's own for the token
C18_NotRefusedByOther(p, q) ==
    \A s \in Seqs :
        PingRegister(p, s) /\ alive /\ Active(q) /\ pinger[q].seq = s
           => /\ pinger'[q] = pinger[q]
              /\ \/ pinger'[p].st = "sending"
                 \/ /\ pinger'[p].res = "IdenticalRequests"
                    /\ TokenOf(p, s) \in DOMAIN inner
                    /\ inner[TokenOf(p, s)].owner = p

\* The reply to q's outstanding ping goes to q and not to p
C18_OwnReply(p, q) ==
    \A d \in net :
        RecvTask(d) /\ Decode(d) = "Ok" /\ d.from = q /\ ~d.late /\ Active(q)
           => pinger'[q].rx = "value" /\ pinger'[p] = pinger[p]

C20_DefaultClientPingerIdent ==
    \A opens \in Openable :
        sockType = CreateSocket(DefaultHint, opens) =>
            /\ \A h \in Hosts, i \in Idents :
                  /\ NewPinger(sockType, h, i).host = h
                  /\ NewPinger(sockType, h, i).ident = Some(i)
            /\ \A p \in Pingers : pinger[p].ident = Some(pinger[p].hint)

\* C21: a ping() whose send_to fails returns IOError and leaves the reply map as
\* it was before the call.  The call's registration only adds the waiter under
\* its token, which was free, and the failed send removes what is under that
\* token and touches nothing else.
C21_SendFailRestoresMap ==
    [][\A p \in Pingers :
          /\ \A s \in Seqs :
                PingRegister(p, s) /\ pinger'[p].st = "sending" =>
                   /\ TokenOf(p, s) \notin DOMAIN inner
                   /\ MapRemove(inner', TokenOf(p, s)) = inner
          /\ PingSendFail(p) =>
                /\ Returned(p, "IOError")'
                /\ CurToken(p) \notin DOMAIN inner'
                /\ inner' = MapRemove(inner, CurToken(p))]_vars

\* C21 witness: a ping() returned IOError while another pinger's waiter is in
\* the map, and the map holds nothing of the failed call
C21_Witness ==
    \E p, q \in Pingers :
        /\ p # q
        /\ Returned(p, "IOError")
        /\ Active(q) /\ DOMAIN inner = {CurToken(q)}
        /\ CurToken(p) # CurToken(q)

\* The fields of ConfigBuilder and of Config
ConfigFields ==
    {"sock_type_hint", "kind", "bind", "interface", "interface_index", "ttl", "fib"}

\* The step is a call of the setter of field f with value v: the field takes
\* the value given, whatever it held, and no other field changes
C27_Sets(f, v) ==
    /\ builder'.b[f] = v
    /\ \A g \in ConfigFields \ {f} : builder'.b[g] = builder.b[g]

\* C26: create_socket tries the hinted type first and, if that fails, the other
\* type once; the type reported is the type of the socket that was opened; if
\* both attempts fail Client::new returns the error and there is neither a
\* client nor a receiver task.
C26_HintThenOther ==
    newClient # None =>
        LET n == newClient[1]
            hint == config[1].sock_type_hint
        IN /\ n.tries[1] = hint
           /\ Len(n.tries) = IF hint \in n.opens THEN 1 ELSE 2
           /\ Len(n.tries) = 2 => n.tries[2] \in SockTypes \ {hint}
           /\ n.res = "Ok" =>
                 /\ n.sock_type = Some(n.tries[Len(n.tries)])
                 /\ n.sock_type[1] \in n.opens
                 /\ n.recv = "running"
           /\ n.opens = {} => n.res = "Err"
           /\ n.res = "Err" => n.sock_type = None /\ n.recv = "none"

\* C26 witness: the hinted type did not open, the other did, and the client
\* reports the other
C26_Witness ==
    /\ newClient # None
    /\ newClient[1].res = "Ok"
    /\ Len(newClient[1].tries) = 2
    /\ newClient[1].sock_type # Some(config[1].sock_type_hint)

\* C27: a new builder holds kind V4, socket type DGRAM and no option; each setter
\* sets its own field to the value given, whatever it held before, and leaves
\* every other field as it was; build() copies every field.
C27_SettersIndependent ==
    [][/\ builder.calls = << >> =>
             /\ builder.b.kind = "V4" /\ builder.b.sock_type_hint = "DGRAM"
             /\ \A f \in ConfigFields \ {"kind", "sock_type_hint"} : builder.b[f] = None
       /\ \A a \in Options.bind : BuilderBind(a) => C27_Sets("bind", Some(a))
       /\ \A i \in Options.interface : BuilderInterface(i) => C27_Sets("interface", Some(i))
       /\ \A n \in Options.interface_index :
             BuilderInterfaceIndex(n) => C27_Sets("interface_index", Some(n))
       /\ \A t \in Options.ttl : BuilderTtl(t) => C27_Sets("ttl", Some(t))
       /\ \A f \in Options.fib : BuilderFib(f) => C27_Sets("fib", Some(f))
       /\ \A k \in ICMPKinds : BuilderKind(k) => C27_Sets("kind", k)
       /\ \A t \in SockTypes : BuilderSockTypeHint(t) => C27_Sets("sock_type_hint", t)
       /\ BuilderBuild =>
             /\ DOMAIN config'[1] = ConfigFields
             /\ \A f \in ConfigFields : config'[1][f] = builder.b[f]]_vars

\* C27 witness: ttl(64).ttl(128).build()
C27_Witness ==
    /\ builder.calls = << <<"ttl", 64>>, <<"ttl", 128>> >>
    /\ config # None
    /\ config[1].ttl = Some(128)
    /\ config[1].kind = "V4" /\ config[1].fib = None

\* C22: a datagram that is an echo request (type 8, or 128 for ICMPv6) is
\* rejected with EchoRequestPacket whichever decoder takes it, and the receiver
\* leaves the map and every slot alone, also when the datagram is a pinger's
\* own request come back and its address, identifier and sequence are those of
\* the pinger's waiter.
C22_RequestNeverConsumes ==
    [][\A d \in net :
          /\ NoisyRecv(d)
          /\ "buf" \in DOMAIN d
          /\ d.buf[(IF d.fam = "V4" /\ ~(sockType = "DGRAM" /\ linux) THEN 20 ELSE 0) + 1]
                = (IF d.fam = "V4" THEN 8 ELSE 128)
          => /\ Decode(d) = "EchoRequestPacket"
             /\ UNCHANGED <<inner, pinger>>]_vars

\* C22 witness: the receiver has dropped the request of a pinger whose waiter
\* is registered under the very token the request would be looked up with
C22_Witness ==
    \E p \in Pingers :
        /\ Active(p) /\ dropped[p] >= 1 /\ net = {}
        /\ CurToken(p) \in DOMAIN inner
        /\ inner[CurToken(p)] = Sender(p, "live")
        /\ CurToken(p) = ReplyToken(pinger[p].host, Some(pinger[p].hint), pinger[p].seq)

\* C23: the echo request the encoder makes, with the type of the reply, decodes
\* to the sequence it was made with and, unless the socket is a datagram socket
\* on Linux or Android, to the identifier it was made with.
C23_RoundTrip ==
    wire # None /\ out # None /\ wire[1].what = "reply" /\ ~wire[1].cut =>
        /\ out[1].res = "Ok"
        /\ out[1].sequence = wire[1].seq
        /\ ~(sockType = "DGRAM" /\ linux) => out[1].identifier = wire[1].id

\* C23 witness: a request with identifier 258, sequence 513 and two octets of
\* payload went through a raw socket's decoder
C23_Witness ==
    /\ wire # None /\ out # None
    /\ wire[1].what = "reply" /\ wire[1].fam = "V4" /\ sockType = "RAW"
    /\ wire[1].id = 258 /\ wire[1].seq = 513
    /\ out[1].res = "Ok" /\ out[1].size = 10

\* C24: an ICMPv4 message of a type other than echo reply and echo request whose
\* ICMP payload is shorter than 32 octets is rejected with PayloadTooShort
\* (want 32), with and without the IPv4 header in front.
C24_ShortErrorRejected ==
    wire # None /\ out # None /\ wire[1].fam = "V4" =>
        LET b == wire[1].bytes
            off == IF sockType = "DGRAM" /\ linux THEN 0 ELSE 20
        IN Len(b) >= off + 4 /\ b[off + 1] \notin {0, 8} /\ Len(b) < off + 4 + 32 =>
              out[1] = [res |-> "PayloadTooShort", got |-> Len(b) - off - 4, want |-> 32]

\* C24 witness: an error message one octet short was rejected behind its IPv4
\* header
C24_Witness ==
    /\ wire # None /\ out # None
    /\ wire[1].fam = "V4" /\ wire[1].what = "error" /\ sockType = "RAW"
    /\ Len(wire[1].bytes) = 20 + 4 + 31
    /\ out[1].res = "PayloadTooShort" /\ out[1].got = 31

\* C25: for an ICMPv6 error message that decodes, real_dest is the destination
\* address of the IPv6 packet embedded in it.
C25_RealDestIsEmbedded ==
    wire # None /\ out # None /\ wire[1].fam = "V6" /\ wire[1].what = "error"
        /\ out[1].res = "Ok" => out[1].real_dest = wire[1].dest

\* C28: a datagram that fails to decode, or that decodes but has no waiter
\* registered under its token (peer address, the identifier unless the socket is
\* a Linux datagram socket, sequence), leaves the reply map as it is: the
\* receiver's turn takes no sender out of the map, fills no pinger's slot and
\* changes no pinger otherwise.
C28_UnmatchedLeavesMap ==
    [][\A d \in net :
          /\ NoisyRecv(d)
          /\ \/ Decode(d) # "Ok"
             \/ <<d.src, IF sockType = "DGRAM" /\ linux THEN None ELSE Some(d.id), d.seq>>
                   \notin DOMAIN inner
          => /\ inner' = inner
             /\ \A p \in Pingers : pinger'[p].rx = pinger[p].rx /\ pinger'[p] = pinger[p]
             /\ net' = net \ {d}]_vars

\* C28 witness: the receiver has dropped a datagram that did not decode while
\* p's waiter was registered, which it still is, and the reply to a call of q
\* that is over is on its way to a map that holds nothing under its token
C28_Witness ==
    \E p, q \in Pingers, d \in net :
        /\ p # q
        /\ Active(p) /\ dropped[p] >= 1
        /\ CurToken(p) \in DOMAIN inner /\ inner[CurToken(p)] = Sender(p, "live")
        /\ Decode(d) = "Ok" /\ d.from = q /\ d.late
        /\ <<d.src, IF sockType = "DGRAM" /\ linux THEN None ELSE Some(d.id), d.seq>>
              \notin DOMAIN inner
        /\ recv = "running"

\* C29: no waiter is inserted into the reply map once the destroyed flag is set:
\* from a state in which alive is false no step puts a sender into the map,
\* under a token that was free or over the sender that was there, also when a
\* new_waiter runs beside the drop of the client.
C29_NoInsertAfterDestroyed ==
    [][~alive =>
          /\ DOMAIN inner' \subseteq DOMAIN inner
          /\ \A t \in DOMAIN inner' : inner'[t].owner = inner[t].owner
          /\ \A p \in Pingers : pinger'[p].st = "sending" => pinger[p].st = "sending"]_vars

\* C30: the removal that a pinger's drop or a ping's timeout makes takes out of
\* the map only a waiter which that pinger registered: every sender the step
\* removes whose Receiver a ping() still holds is the pinger's own, and no other
\* pinger's open slot is closed by it.
C30_RemovesOnlyOwn ==
    [][\A p \in Pingers :
          PingerDrop(p) \/ PingTimeout(p) =>
             /\ \A t \in DOMAIN inner :
                   t \notin DOMAIN inner' /\ inner[t].kind = "live" => inner[t].owner = p
             /\ \A q \in Pingers :
                   q # p /\ pinger'[q].rx = "closed" => pinger[q].rx = "closed"]_vars

\* C31: a ping that returns Ok returns the reply to the request which that call
\* sent.  A reply to a request of a call that is over (timed out, cancelled)
\* never fills the slot of a later call, also when the later call registers the
\* same host, identifier disposition and sequence.
C31_OkIsOwnReply ==
    [][\A d \in net :
          RecvTask(d) /\ Decode(d) = "Ok" /\ d.late =>
             \A p \in Pingers : pinger'[p].rx = "value" => pinger[p].rx = "value"]_vars

\* C32: the receiver hands a decoded packet to a waiter exactly when the
\* waiter's token is (peer address of the datagram, the identifier unless the
\* socket is a Linux datagram socket, decoded sequence): the turn fills the slot
\* of the pinger whose live sender is under that token and of no other.  An
\* error message that a router sends about an outstanding request to a host
\* decodes and leaves the map and every pinger as they were.
C32_DeliveryByPeerToken ==
    [][\A d \in net :
          RouterRecv(d) /\ Decode(d) = "Ok" =>
             LET tok == <<d.src, IF sockType = "DGRAM" /\ linux THEN None ELSE Some(d.id),
                          d.seq>>
             IN /\ \A p \in Pingers :
                      (pinger[p].rx # "value" /\ pinger'[p].rx = "value")
                         <=> (tok \in DOMAIN inner /\ inner[tok] = Sender(p, "live"))
                /\ d.src \notin Hosts =>
                      /\ UNCHANGED <<inner, pinger>>
                      /\ out'[1].res = "Ok"]_vars

\* C32 witness: the receiver has decoded the error message of a router about
\* p's request, p's waiter stayed in the map, and the ping has ended in Timeout
C32_Witness ==
    \E p \in Pingers :
        /\ out # None /\ out[1].res = "Ok"
        /\ out[1].source = PeerAddr("r1", "V4")
        /\ out[1].real_dest = HostAddr("V4")
        /\ out[1].sequence = pinger[p].seq
        /\ ~IsLinuxIcmpSocket(sockType) /\ Some(out[1].identifier) = pinger[p].ident
        /\ Returned(p, "Timeout")
        /\ net = {}
        /\ calls = 1

\* C37: an ICMPv6 error message whose payload is four unused octets, the IPv6
\* header of the offending packet and the offending echo request as
\* make_icmpv6_echo_packet(ident, seq, payload) made it decodes to that
\* identifier and that sequence.
C37_EmbeddedRequestRoundTrip ==
    wire # None /\ out # None /\ wire[1].fam = "V6" /\ wire[1].what = "error" /\ ~wire[1].cut
       => /\ out[1].res = "Ok"
          /\ out[1].identifier = wire[1].id
          /\ out[1].sequence = wire[1].seq

\* C33: the lock of the reply map is held for one insert or one remove and no
\* task suspends while it holds it.  Whoever holds the lock can make its
\* operation and release at once, whatever the other tasks do; the step after
\* the acquisition that changes the lock is the release; the keys of the map
\* change only in the step that releases the lock, and by one entry.
C33_LockHeldForOneOperation ==
    /\ [](lock # None => ENABLED LockRelease)
    /\ [][/\ lock # None => lock' = lock \/ lock' = None
          /\ DOMAIN inner' # DOMAIN inner =>
                /\ lock # None /\ lock' = None
                /\ Cardinality((DOMAIN inner' \ DOMAIN inner) \cup (DOMAIN inner \ DOMAIN inner'))
                      = 1
          /\ \A p \in Pingers : Holds(p) /\ pinger'[p] # pinger[p] => lock' = None]_vars

\* C33 witness: a pinger holds the lock for the removal its timeout makes while
\* the receiver has a reply for a registered waiter and another pinger is
\* about to insert: both wait for the lock
C33_Witness ==
    \E p, q \in Pingers, d \in net :
        /\ p # q
        /\ Holds(p) /\ lock[1].op = "timeout"
        /\ Wants(q, "insert", None)
        /\ Wants(0, "recv", Some(d)) /\ RecvToken(d) \in DOMAIN inner

RECURSIVE C35_Sum16(_, _)
C35_Sum16(b, i) ==
    IF i > Len(b) THEN 0
    ELSE b[i] * 256 + (IF i + 1 <= Len(b) THEN b[i + 1] ELSE 0) + C35_Sum16(b, i + 2)

\* C35: make_icmpv4_echo_packet returns 8 + payload-length octets with type 8,
\* code 0, the sequence and the payload.  Unless the socket is a Linux datagram
\* socket the identifier field is the identifier given and the checksum field
\* is the Internet checksum of the message (the one's-complement sum of all its
\* words, the checksum among them, is 0xFFFF); on a Linux datagram socket both
\* fields are zero.
C35_EchoRequestLayout ==
    wire # None /\ wire[1].fam = "V4" /\ wire[1].what = "request" /\ ~wire[1].cut
       => LET m == From(wire[1].bytes, IcmpOffset("V4", sockType))
              n == Len(m) - 8
          IN /\ n \in 0..MaxPayload
             /\ m[1] = 8 /\ m[2] = 0
             /\ m[7] * 256 + m[8] = wire[1].seq
             /\ \A i \in 1..n : m[8 + i] = 170 + i
             /\ IF sockType = "DGRAM" /\ linux
                THEN m[3] = 0 /\ m[4] = 0 /\ m[5] = 0 /\ m[6] = 0
                ELSE /\ m[5] * 256 + m[6] = wire[1].id
                     /\ C35_Sum16(m, 1) > 0
                     /\ C35_Sum16(m, 1) % 65535 = 0

\* C35 witness: a request with identifier 65535 and an odd payload, made for a
\* socket that carries the identifier: the sum of its words has carries
C35_Witness ==
    /\ wire # None /\ wire[1].fam = "V4" /\ wire[1].what = "request" /\ ~wire[1].cut
    /\ sockType = "DGRAM" /\ ~linux
    /\ wire[1].id = 65535 /\ wire[1].seq = 513
    /\ Len(wire[1].bytes) = 20 + 8 + 1
    /\ U16At(wire[1].bytes, 22) # 0

\* C36: an ICMPv4 message of a type other than echo reply and echo request
\* whose ICMP payload has at least 32 octets decodes, with and without the IPv4
\* header in front, to real_dest = the destination address of the IPv4 header
\* embedded at payload offsets 4..24 (its octets 20..24), identifier = the
\* big-endian value of payload octets 28..30 and sequence = that of octets
\* 30..32: the destination and the sequence of the request the message is about.
C36_EmbeddedV4Fields ==
    wire # None /\ out # None /\ wire[1].fam = "V4"
       => LET b == wire[1].bytes
              p == (IF sockType = "DGRAM" /\ linux THEN 0 ELSE 20) + 4
          IN Len(b) >= p + 32 /\ b[p - 3] \notin {0, 8}
                => /\ out[1].res = "Ok"
                   /\ out[1].real_dest = <<b[p + 21], b[p + 22], b[p + 23], b[p + 24]>>
                   /\ out[1].identifier = b[p + 29] * 256 + b[p + 30]
                   /\ out[1].sequence = b[p + 31] * 256 + b[p + 32]
                   /\ out[1].real_dest = wire[1].dest
                   /\ out[1].sequence = wire[1].seq

\* C36 witness: a Destination Unreachable message about a request to the host,
\* received without IPv4 header on a Linux datagram socket and decoded
C36_Witness ==
    /\ wire # None /\ out # None
    /\ wire[1].fam = "V4" /\ wire[1].what = "error"
    /\ sockType = "DGRAM" /\ linux
    /\ Len(wire[1].bytes) = 4 + 32
    /\ out[1].res = "Ok" /\ out[1].icmp_type = 3
    /\ out[1].real_dest = HostAddr("V4") /\ out[1].sequence = 513

\* C38: an echo request made with an empty payload is 8 octets long, for v4 and
\* for v6: the header and nothing after it. With the type of the reply it
\* decodes without error as a message of 8 octets, through the decoder of
\* every socket type and platform.
C38_EmptyPayload ==
    wire # None /\ wire[1].what \in {"request", "reply"} /\ wire[1].size = 0 /\ ~wire[1].cut
       => /\ Len(wire[1].bytes) = IcmpOffset(wire[1].fam, sockType) + 8
          /\ EchoRequestBytes(wire[1].fam, wire[1].id, wire[1].seq, << >>, sockType)
                \in [1..8 -> 0..255]
          /\ out # None /\ wire[1].what = "reply"
                => /\ out[1].res = "Ok"
                   /\ out[1].size = 8
                   /\ out[1].sequence = wire[1].seq

\* C38 witness: the header-only reply to a v6 request went through the decoder
\* of a datagram socket on Linux
C38_Witness ==
    /\ wire # None /\ out # None
    /\ wire[1].what = "reply" /\ wire[1].size = 0 /\ wire[1].fam = "V6"
    /\ sockType = "DGRAM" /\ linux
    /\ Len(wire[1].bytes) = 8
    /\ out[1].res = "Ok" /\ out[1].size = 8

\* C39: a pinger of a PingSocket is never left registered without a receive
\* task: once every pinger() call has returned, with no call left that could
\* start a task, and no recv_from has failed, a map that holds an address has
\* a receive task that has not ended.
C39_RegisteredHasReceiver ==
    (\A c \in 1..MaxAsks : asked[c].pc = "returned") /\ pmap # << >> /\ ~run_task.failed
       => run_task.pc \notin {"none", "done"}

\* C40: when ping(seq) of the Pinger with a cache has returned, with any
\* outcome, the cache holds no entry for (ident, seq).
C40_NoEntryAfterReturn ==
    select.st = "returned" => <<select.ident, select.seq>> \notin cache

====
